---- MODULE Spec2Model ----
(***************************************************************************)
(* A model of rdapper's resolution engine: the lookup orchestrator         *)
(* (src/src/index.ts), the RDAP bootstrap resolver and fetcher, the WHOIS  *)
(* locator, the two WHOIS referral walkers and the WHOIS record merger.    *)
(*                                                                         *)
(* One action is one awaited network operation settling, followed by all   *)
(* the synchronous code that runs until the next await or the return.      *)
(***************************************************************************)
EXTENDS Integers, Sequences, FiniteSets, TLC

VARIABLES
    pc,             \* position of the running call
    domain,         \* lookup's `domain` argument
    opts,           \* the options bag (immutable during a call)
    bases,          \* lookup: `bases` returned by the bootstrap resolver
    tried,          \* lookup: `tried`
    rel,            \* fetchAndMergeRdapRelated: its locals while it runs
    whoisServer,    \* lookup: `whoisServer` located for the TLD
    walk,           \* referral walker: its locals while it runs
    result,         \* the settled value of the call
    signalAborted,  \* the caller's AbortSignal has fired
    lastOp,         \* history: the network operation that settled last
    issued,         \* history: the kinds of operation issued so far
    wlog,           \* history: the walker's WHOIS queries and their outcomes
    leftOpen,       \* operations no longer awaited whose socket or request
                    \* the program has neither destroyed nor aborted
    parked          \* the locals of a second, concurrent call of lookup while
                    \* this call runs (pc "none": there is no second call)

vars == <<pc, domain, opts, bases, tried, rel, whoisServer, walk, result,
          signalAborted, lastOp, issued, wlog, leftOpen, parked>>

\* no second call
NoCaller == [pc |-> "none"]

(***************************************************************************)
(* Bounds of the model.                                                    *)
(***************************************************************************)
\* largest maxWhoisReferralHops a caller passes
MaxHopsOpt == 2
\* largest number of base URLs a bootstrap entry lists
MaxBases == 2

\* `opts?.maxWhoisReferralHops ?? 2`
DefaultMaxWhoisReferralHops == 2

(***************************************************************************)
(* Optional values: <<>> is undefined, <<v>> is v.                         *)
(***************************************************************************)
Undefined == <<>>
Some(v) == <<v>>
OrElse(x, d) == IF x = Undefined THEN d ELSE x[1]
Max(a, b) == IF a >= b THEN a ELSE b

(***************************************************************************)
(* Server strings.  A string naming a WHOIS server is a host name, lower   *)
(* or upper case, with or without a leading "whois://".  Hosts are         *)
(* numbered: 0 is the TLD registry's server.                               *)
(***************************************************************************)
Srv(n) == [scheme |-> FALSE, upper |-> FALSE, name |-> n]
SrvUpper(n) == [scheme |-> FALSE, upper |-> TRUE, name |-> n]
SrvScheme(n) == [scheme |-> TRUE, upper |-> FALSE, name |-> n]

\* server.replace(/^whois:\/\//i, "")
StripScheme(s) == [s EXCEPT !.scheme = FALSE]
ToLowerCase(s) == [s EXCEPT !.upper = FALSE]

\* referral.ts normalize()
normalize(server) == ToLowerCase(StripScheme(server))

(***************************************************************************)
(* WHOIS texts.  A text is its free-text body, a sequence of lower-cased   *)
(* tokens, and its referral lines, each a key and a server string.         *)
(* A phrase pattern /\bw1 w2 ...\b/i matches when its tokens occur         *)
(* contiguously in the body.                                               *)
(***************************************************************************)
Contains(body, pat) ==
    \E i \in 1..(Len(body) - Len(pat) + 1) :
        \A j \in 1..Len(pat) : body[i + j - 1] = pat[j]

\* lib/domain.ts WHOIS_AVAILABLE_PATTERNS
DomainAvailablePatterns ==
    { <<"no", "match">>,
      <<"not", "found">>,
      <<"no", "entries", "found">>,
      <<"no", "data", "found">>,
      <<"available", "for", "registration">>,
      <<"domain", "available">>,
      <<"domain", "status", ":", "available">>,
      <<"domain", "status", "available">>,
      <<"object", "does", "not", "exist">>,
      <<"the", "queried", "object", "does", "not", "exist">> }

\* whois/normalize.ts WHOIS_AVAILABLE_PATTERNS
NormalizeAvailablePatterns ==
    { <<"no", "match">>,
      <<"not", "found">>,
      <<"no", "entries", "found">>,
      <<"no", "data", "found">>,
      <<"available", "for", "registration">>,
      <<"domain", "available">>,
      <<"domain", "status", ":", "available">>,
      <<"domain", "status", "available">>,
      <<"object", "does", "not", "exist">>,
      <<"the", "queried", "object", "does", "not", "exist">>,
      <<"queried", "object", "does", "not", "exist">>,
      <<"returned", "0", "objects">>,
      <<"status", ":", "free">>,
      <<"status", ":", "available">>,
      <<"no", "object", "found">>,
      <<"nicht", "gefunden">>,
      <<"pending", "release">> }

\* lib/domain.ts isWhoisAvailable (the walkers' classifier)
isWhoisAvailable(text) ==
    /\ text.body # <<>>
    /\ \E pat \in DomainAvailablePatterns : Contains(text.body, pat)

\* whois/normalize.ts isAvailableByWhois (the normalizer's classifier)
isAvailableByWhois(text) ==
    /\ text.body # <<>>
    /\ \E pat \in NormalizeAvailablePatterns : Contains(text.body, pat)

KeyLines(text, key) == SelectSeq(text.refs, LAMBDA l : l.key = key)

\* whois/discovery.ts extractWhoisReferral: three patterns in order
extractWhoisReferral(text) ==
    LET rws == KeyLines(text, "registrar whois server")
        ws  == KeyLines(text, "whois server")
        rs  == SelectSeq(KeyLines(text, "referralserver"), LAMBDA l : l.value.scheme)
    IN  IF rws # <<>> THEN Some(rws[1].value)
        ELSE IF ws # <<>> THEN Some(ws[1].value)
        ELSE IF rs # <<>> THEN Some(StripScheme(rs[1].value))
        ELSE Undefined

(***************************************************************************)
(* The responses a WHOIS server can give.                                  *)
(***************************************************************************)
BodyRegistered == <<"domain", "name", ":", "example">>
BodyNoMatch == <<"no", "match", "for", "example">>
BodyStatusFree == <<"status", ":", "free">>
Bodies == {BodyRegistered, BodyNoMatch, BodyStatusFree}

RefLine(key, value) == [key |-> key, value |-> value]

\* referral lines of a response, over the hosts 0..n
RefLinesOver(n) ==
    {<<>>}
    \cup {<<RefLine("registrar whois server", SrvUpper(0))>>}
    \cup {<<RefLine("registrar whois server", Srv(k))>> : k \in 1..n}
    \cup {<<RefLine("referralserver", SrvScheme(1))>>}
    \cup {<<RefLine("whois server", Srv(1)), RefLine("registrar whois server", Srv(n))>>}

TextsOver(n) == [body : Bodies, refs : RefLinesOver(n)]

WhoisErrors == {"connect ECONNREFUSED", "WHOIS timeout", "WHOIS socket timeout"}

\* what whoisQuery(server, ...) settles with: a text, or a rejection
WhoisOutcomesOver(n) ==
    [ok : {TRUE}, text : TextsOver(n)] \cup [ok : {FALSE}, error : WhoisErrors]

\* a smaller choice of referral lines: none, back to host 0, on to host k
PlainRefLinesOver(n) ==
    {<<>>}
    \cup {<<RefLine("registrar whois server", SrvUpper(0))>>}
    \cup {<<RefLine("registrar whois server", Srv(k))>> : k \in 1..n}

PlainWhoisOutcomesOver(n) ==
    [ok : {TRUE}, text : [body : Bodies, refs : PlainRefLinesOver(n)]]
    \cup [ok : {FALSE}, error : WhoisErrors]

\* whois/client.ts whoisQuery's resolved value
WhoisQueryResult(server, text) == [serverQueried |-> server, text |-> text]

\* lib/async withTimeout: when the timer wins the race the promise of the
\* operation is dropped, nothing closes what it opened.  whoisQuery rejects
\* with "WHOIS timeout" while the socket of queryTcp stays connected; the
\* socket's own idle timer destroys it before rejecting.
WhoisLeftOpen(out) ==
    IF ~out.ok /\ out.error = "WHOIS timeout" THEN {"whois socket"} ELSE {}

\* a fetch that loses the race is given only the caller's signal, which
\* the timer does not fire
HttpLeftOpen(out) == IF out.kind = "timeout" THEN {"http request"} ELSE {}

(***************************************************************************)
(* The referral walkers (whois/referral.ts).                               *)
(***************************************************************************)
\* Math.max(0, opts?.maxWhoisReferralHops ?? 2)
MaxHops(o) == Max(0, OrElse(o.maxWhoisReferralHops, DefaultMaxWhoisReferralHops))

\* opts?.followWhoisReferral === false
FollowDisabled(o) == o.followWhoisReferral = Some(FALSE)

NoWalk ==
    [fn |-> "none", phase |-> "idle", current |-> Undefined, results |-> <<>>,
     visited |-> {}, hops |-> 0, next |-> Undefined, error |-> Undefined]

\* LoopHead with the hop limit dropped (`while (true)`)
LoopHeadNoHopLimit(w, o) ==
    LET next == extractWhoisReferral(w.current[1].text)
    IN  IF next = Undefined THEN [w EXCEPT !.phase = "returned", !.next = Undefined]
        ELSE IF normalize(next[1]) \in w.visited
             THEN [w EXCEPT !.phase = "returned", !.next = Undefined]
        ELSE [w EXCEPT !.phase = "awaiting",
                       !.next = next,
                       !.visited = @ \cup {normalize(next[1])}]

\* LoopHead with the cycle guard dropped
LoopHeadNoCycleGuard(w, o) ==
    LET next == extractWhoisReferral(w.current[1].text)
    IN  IF ~(w.hops < MaxHops(o)) THEN [w EXCEPT !.phase = "returned", !.next = Undefined]
        ELSE IF next = Undefined THEN [w EXCEPT !.phase = "returned", !.next = Undefined]
        ELSE [w EXCEPT !.phase = "awaiting",
                       !.next = next,
                       !.visited = @ \cup {normalize(next[1])}]

\* The head of the while loop, up to the await of the next query or the
\* break: hop limit, referral extraction, cycle guard, visited.add.
LoopHead(w, o) ==
    LET next == extractWhoisReferral(w.current[1].text)
    IN  IF ~(w.hops < MaxHops(o)) THEN [w EXCEPT !.phase = "returned", !.next = Undefined]
        ELSE IF next = Undefined THEN [w EXCEPT !.phase = "returned", !.next = Undefined]
        ELSE IF normalize(next[1]) \in w.visited
             THEN [w EXCEPT !.phase = "returned", !.next = Undefined]
        ELSE [w EXCEPT !.phase = "awaiting",
                       !.next = next,
                       !.visited = @ \cup {normalize(next[1])}]

\* WalkerFirst with `visited` a set of the module, shared by all calls
WalkerFirstSharedVisited(fn, server, out, o) ==
    IF ~out.ok
    THEN [NoWalk EXCEPT !.fn = fn, !.phase = "threw", !.error = Some(out.error)]
    ELSE LET first == WhoisQueryResult(server, out.text)
             w0 == [NoWalk EXCEPT !.fn = fn,
                                  !.current = Some(first),
                                  !.results = IF fn = "collect" THEN <<first>> ELSE <<>>]
             shared == IF parked.pc = "none" THEN {} ELSE parked.walk.visited
         IN  IF FollowDisabled(o) \/ MaxHops(o) = 0
             THEN [w0 EXCEPT !.phase = "returned"]
             ELSE LoopHead([w0 EXCEPT !.visited = shared \cup {normalize(first.serverQueried)}], o)

\* The first query settles (referral.ts 16-22 and 59-67), then the loop head.
WalkerFirst(fn, server, out, o) ==
    IF ~out.ok
    THEN [NoWalk EXCEPT !.fn = fn, !.phase = "threw", !.error = Some(out.error)]
    ELSE LET first == WhoisQueryResult(server, out.text)
             w0 == [NoWalk EXCEPT !.fn = fn,
                                  !.current = Some(first),
                                  !.results = IF fn = "collect" THEN <<first>> ELSE <<>>]
         IN  IF FollowDisabled(o) \/ MaxHops(o) = 0
             THEN [w0 EXCEPT !.phase = "returned"]
             ELSE LoopHead([w0 EXCEPT !.visited = {normalize(first.serverQueried)}], o)

\* the walk stopped by any response that looks available
ContradictsAnyAvailable(current, res) == isWhoisAvailable(res.text)

\* The contradiction rule (referral.ts 33-38 and 77-82)
Contradicts(current, res) ==
    LET registeredBefore == ~isWhoisAvailable(current.text)
        registeredAfter == ~isWhoisAvailable(res.text)
    IN  registeredBefore /\ ~registeredAfter

\* WalkerHop appending a response to the chain before the contradiction
\* rule is applied to it
WalkerHopAppendsFirst(w, out, o) ==
    IF ~out.ok
    THEN [w EXCEPT !.phase = "returned", !.next = Undefined]
    ELSE LET res == WhoisQueryResult(w.next[1], out.text)
             pushed == [w EXCEPT !.results = IF w.fn = "collect" THEN Append(@, res) ELSE @]
         IN  IF Contradicts(w.current[1], res)
             THEN [pushed EXCEPT !.phase = "returned", !.next = Undefined]
             ELSE LoopHead([pushed EXCEPT !.current = Some(res), !.hops = @ + 1], o)

\* WalkerHop without the try/catch around the query: the failure is thrown
WalkerHopThrowsOnFailure(w, out, o) ==
    IF ~out.ok
    THEN [w EXCEPT !.phase = "threw", !.next = Undefined, !.error = Some(out.error)]
    ELSE LET res == WhoisQueryResult(w.next[1], out.text)
         IN  IF Contradicts(w.current[1], res)
             THEN [w EXCEPT !.phase = "returned", !.next = Undefined]
             ELSE LoopHead([w EXCEPT !.current = Some(res),
                                     !.results = IF w.fn = "collect"
                                                 THEN Append(@, res) ELSE @,
                                     !.hops = @ + 1], o)

\* The query of a referred server settles (referral.ts 30-45 and 74-89).
WalkerHop(w, out, o) ==
    IF ~out.ok
    THEN [w EXCEPT !.phase = "returned", !.next = Undefined]
    ELSE LET res == WhoisQueryResult(w.next[1], out.text)
         IN  IF Contradicts(w.current[1], res)
             THEN [w EXCEPT !.phase = "returned", !.next = Undefined]
             ELSE LoopHead([w EXCEPT !.current = Some(res),
                                     !.results = IF w.fn = "collect"
                                                 THEN Append(@, res) ELSE @,
                                     !.hops = @ + 1], o)

\* What the walker returns: the last adopted response, or the chain.
WalkerValue(w) == IF w.fn = "collect" THEN w.results ELSE w.current[1]

(***************************************************************************)
(* Domains and TLD strings (lib/domain.ts).  A domain is its sequence of   *)
(* labels; a TLD string is a label sequence, lower or upper case.          *)
(***************************************************************************)
Tld(labels) == [upper |-> FALSE, labels |-> labels]
TldUpper(labels) == [upper |-> TRUE, labels |-> labels]
TldToLowerCase(t) == [t EXCEPT !.upper = FALSE]

Domains ==
    { <<"localhost">>, <<"10", "0", "0", "44">>,
      <<"example", "com">>, <<"example", "com", "br">> }

\* lib/domain.ts isLikelyDomain: one or more labels, a dot, a final label
isLikelyDomain(d) == Len(d) >= 2 /\ \A i \in 1..Len(d) : d[i] # ""

NumericLabels == {"0", "10", "44"}
IcannSuffixes == { <<"com">>, <<"br">>, <<"com", "br">> }
Suffix(d, n) == SubSeq(d, Len(d) - n + 1, Len(d))

\* tldts parse(domain).publicSuffix: null for an IP address, else the
\* longest listed suffix, else the last label
PublicSuffix(d) ==
    IF \A i \in 1..Len(d) : d[i] \in NumericLabels THEN Undefined
    ELSE LET ns == {n \in 1..Len(d) : Suffix(d, n) \in IcannSuffixes}
         IN  IF ns = {} THEN Some(Tld(Suffix(d, 1)))
             ELSE Some(Tld(Suffix(d, CHOOSE n \in ns : \A m \in ns : m <= n)))

\* every suffix taken for a multi-label one
IsMultiLabelAlways(t) == TRUE

\* tld.includes(".")
IsMultiLabel(t) == Len(t.labels) > 1
\* tld.split(".").pop() ?? tld
LastLabel(t) == [t EXCEPT !.labels = Suffix(t.labels, 1)]

(***************************************************************************)
(* Bootstrap documents and the bootstrap resolver (rdap/bootstrap.ts).     *)
(* A URL is a numbered address with or without a trailing "/".             *)
(***************************************************************************)
Url(i, slash) == [id |-> i, slash |-> slash]
\* u.endsWith("/") ? u : `${u}/`
WithTrailingSlash(u) == [u EXCEPT !.slash = TRUE]

RECURSIVE Dedupe(_)
\* Array.from(new Set(xs)): first occurrences, in order
Dedupe(xs) ==
    IF xs = <<>> THEN <<>>
    ELSE LET init == Dedupe(SubSeq(xs, 1, Len(xs) - 1))
             last == xs[Len(xs)]
         IN  IF \E i \in 1..Len(init) : init[i] = last THEN init ELSE Append(init, last)

Service(tlds, urls) == [wellFormed |-> TRUE, tlds |-> tlds, urls |-> urls]
MalformedService == [wellFormed |-> FALSE, tlds |-> <<>>, urls |-> <<>>]

\* k distinct bases for com and br (the first one listed twice, with and
\* without its slash), and optionally an entry for the suffix com.br
BootDoc(k, multi) ==
    [type |-> "object",
     services |-> Some(
        << Service(<<TldUpper(<<"com">>), Tld(<<"br">>)>>,
                   [i \in 1..k |-> Url(i, i % 2 = 0)]
                     \o (IF k > 0 THEN <<Url(1, TRUE)>> ELSE <<>>)) >>
        \o (IF multi THEN << Service(<<Tld(<<"com", "br">>)>>, <<Url(0, TRUE)>>) >>
            ELSE <<>>))]

BootDocs == {BootDoc(k, multi) : k \in 0..MaxBases, multi \in BOOLEAN}

\* values that are not a BootstrapData
DataNull == [type |-> "null", services |-> Undefined]
DataUndefined == [type |-> "undefined", services |-> Undefined]
DataString == [type |-> "string", services |-> Undefined]
DataNumber == [type |-> "number", services |-> Undefined]
DataArray == [type |-> "array", services |-> Undefined]
DataNoServices == [type |-> "object", services |-> Undefined]
DataBadEntry == [type |-> "object", services |-> Some(<<MalformedService>>)]

\* the TLD compared with the entries as written, case included
MatchingBasesCaseSensitive(data, tld) ==
    LET svcs == data.services[1]
        UrlsOf(s) == IF s.wellFormed /\ tld \in {s.tlds[i] : i \in 1..Len(s.tlds)}
                     THEN [i \in 1..Len(s.urls) |-> WithTrailingSlash(s.urls[i])]
                     ELSE <<>>
        Cat[i \in 0..Len(svcs)] == IF i = 0 THEN <<>> ELSE Cat[i - 1] \o UrlsOf(svcs[i])
    IN  Dedupe(Cat[Len(svcs)])

\* bootstrap.ts 80-94: the base URLs the document lists for the TLD
MatchingBases(data, tld) ==
    LET target == TldToLowerCase(tld)
        svcs == data.services[1]
        Lowered(s) == {TldToLowerCase(s.tlds[i]) : i \in 1..Len(s.tlds)}
        UrlsOf(s) == IF s.wellFormed /\ target \in Lowered(s)
                     THEN [i \in 1..Len(s.urls) |-> WithTrailingSlash(s.urls[i])]
                     ELSE <<>>
        Cat[i \in 0..Len(svcs)] == IF i = 0 THEN <<>> ELSE Cat[i - 1] \o UrlsOf(svcs[i])
    IN  Dedupe(Cat[Len(svcs)])

Returned(v) == [threw |-> FALSE, value |-> v, error |-> "", abort |-> FALSE]
Thrown(msg) == [threw |-> TRUE, value |-> <<>>, error |-> msg, abort |-> FALSE]
ThrownAbort == [threw |-> TRUE, value |-> <<>>, error |-> "AbortError", abort |-> TRUE]

\* what the bootstrap fetch settles with
BootFetchOutcomes ==
    [kind : {"ok"}, data : BootDocs \cup {DataNoServices}]
    \cup [kind : {"http error", "network error", "timeout", "bad json", "abort"},
          data : {DataNull}]

\* `!provided || typeof provided !== "object"`: an array is an object
IsObject(provided) == provided.type \in {"object", "array"}

\* an invalid document read as one that lists no service
ValidateCustomDataReadsInvalidAsEmpty(provided) ==
    IF \/ ~IsObject(provided)
       \/ provided.services = Undefined
       \/ \E i \in 1..Len(provided.services[1]) : ~provided.services[1][i].wellFormed
    THEN Returned([type |-> "object", services |-> Some(<<>>)])
    ELSE Returned(provided)

\* bootstrap.ts 26-51: the caller's document is validated, never fetched
ValidateCustomData(provided) ==
    IF ~IsObject(provided)
    THEN Thrown("Invalid customBootstrapData: expected an object")
    ELSE IF provided.services = Undefined
    THEN Thrown("Invalid customBootstrapData: missing or invalid services array")
    ELSE IF \E i \in 1..Len(provided.services[1]) : ~provided.services[1][i].wellFormed
    THEN Thrown("Invalid customBootstrapData: services[i] must be a tuple")
    ELSE Returned(provided)

\* the fetch with an abort caught like any other failure
FetchedDataSwallowsAbort(out) ==
    IF out.kind = "ok" THEN Returned(out.data) ELSE Returned(DataNull)

\* the fetch with every caught error rethrown
FetchedDataRethrowsAll(out) ==
    IF out.kind = "ok" THEN Returned(out.data)
    ELSE IF out.kind = "abort" THEN ThrownAbort
    ELSE Thrown("RDAP bootstrap failed")

\* bootstrap.ts 52-77: the document is fetched; a failure is an empty list,
\* except an abort, which is rethrown
FetchedData(out) ==
    IF out.kind = "ok" THEN Returned(out.data)
    ELSE IF out.kind = "abort" THEN ThrownAbort
    ELSE Returned(DataNull)

\* the caller's document used only when no customBootstrapUrl is given
UsesCustomDataUnlessUrl(o) ==
    o.customBootstrapData # Undefined /\ o.customBootstrapUrl = Undefined

\* bootstrap.ts 26: "customBootstrapData" in options
UsesCustomData(o) == o.customBootstrapData # Undefined

DEFAULT_BOOTSTRAP_URL == "https://data.iana.org/rdap/dns.json"
\* bootstrap.ts 56: options?.customBootstrapUrl ?? DEFAULT_BOOTSTRAP_URL
BootstrapUrl(o) == OrElse(o.customBootstrapUrl, DEFAULT_BOOTSTRAP_URL)

\* rdap/bootstrap.ts getRdapBaseUrlsForTld; `out` is what the fetch settles
\* with, read only when the caller supplied no document
getRdapBaseUrlsForTld(tld, o, out) ==
    LET got == IF UsesCustomData(o) THEN ValidateCustomData(o.customBootstrapData[1])
               ELSE FetchedData(out)
    IN  IF got.threw THEN got
        ELSE IF ~UsesCustomData(o) /\ out.kind # "ok" THEN Returned(<<>>)
        ELSE IF got.value.services = Undefined
             THEN Thrown("TypeError: data.services is not iterable")
        ELSE Returned(MatchingBases(got.value, tld))

(***************************************************************************)
(* Nameservers.  A host name is a numbered name, lower or upper case; an   *)
(* address is an atom.  A Nameserver has a host and optional ipv4 and ipv6 *)
(* lists.  A nameserver line of a WHOIS text is a host followed by         *)
(* whitespace-separated parts, each an IPv4 address, an IPv6 address or    *)
(* something else.                                                         *)
(***************************************************************************)
Host(n, upper) == [name |-> n, upper |-> upper]
HostToLowerCase(h) == [h EXCEPT !.upper = FALSE]
Nameserver(host, ipv4, ipv6) == [host |-> host, ipv4 |-> ipv4, ipv6 |-> ipv6]
NsPart(kind, addr) == [kind |-> kind, addr |-> addr]
NsLine(host, parts) == [host |-> host, parts |-> parts]

\* lib/text uniq on strings: Array.from(new Set(arr))
uniq(arr) == Dedupe(arr)

\* lib/text uniq on objects that the preceding map() has just created: a Set
\* compares objects by reference, so every element is kept
uniqFreshObjects(arr) == arr

\* `xs || []` for an optional list
OrEmpty(xs) == IF xs = Undefined THEN <<>> ELSE xs[1]
\* `if (list.length) ns.field = list`
IfNonEmpty(xs) == IF xs = <<>> THEN Undefined ELSE Some(xs)

\* the nameserver lines of a WHOIS text (none when the text has no such key)
NsLinesOf(text) == IF "ns" \in DOMAIN text THEN text.ns ELSE <<>>

\* normalize.ts 184-198: one nameserver line to a Nameserver
NameserverOfLine(line) ==
    LET Addrs(kind) ==
            LET sel == SelectSeq(line.parts, LAMBDA q : q.kind = kind)
            IN  [i \in 1..Len(sel) |-> sel[i].addr]
    IN  Nameserver(HostToLowerCase(line.host), IfNonEmpty(Addrs("v4")), IfNonEmpty(Addrs("v6")))

\* normalize.ts 179-202: the nameservers of a WHOIS text
WhoisNameservers(text) ==
    LET nsLines == NsLinesOf(text)
    IN  IF Len(nsLines) = 0 THEN Undefined
        ELSE Some(uniqFreshObjects([i \in 1..Len(nsLines) |-> NameserverOfLine(nsLines[i])]))

\* a nameserver object of an RDAP document
RdapNs(ldhName, v4, v6) == [ldhName |-> ldhName, v4 |-> v4, v6 |-> v6]

\* part_018 uniqBy over nameserver objects, keyed by the lower-cased ldhName
\* (the empty string when absent): the first object of a key is kept
uniqByName(arr) ==
    LET Key(n) == IF n.ldhName = Undefined THEN Undefined ELSE Some(HostToLowerCase(n.ldhName[1]))
        Acc[i \in 0..Len(arr)] ==
            IF i = 0 THEN <<>>
            ELSE IF \E j \in 1..Len(Acc[i - 1]) : Key(Acc[i - 1][j]) = Key(arr[i])
                 THEN Acc[i - 1] ELSE Append(Acc[i - 1], arr[i])
    IN  Acc[Len(arr)]

\* normalizeRdap (rdap/bootstrap.test.ts 491-509 and 602-604): objects with
\* ldhName and ipAddresses to Nameservers, nameless ones dropped
RdapNameservers(doc) ==
    LET arr == doc.nameservers
    IN  IF arr = Undefined THEN Undefined
        ELSE LET named == SelectSeq(arr[1], LAMBDA n : n.ldhName # Undefined)
                 mapped == [i \in 1..Len(named) |->
                              Nameserver(HostToLowerCase(named[i].ldhName[1]),
                                         IfNonEmpty(named[i].v4), IfNonEmpty(named[i].v6))]
             IN  Some(uniqFreshObjects(mapped))

\* dedupeNameservers with a later entry of a host replacing the earlier one
dedupeNameserversLastWins(a, b) ==
    LET list == OrEmpty(a) \o OrEmpty(b)
        Lower(ns) == [ns EXCEPT !.host = HostToLowerCase(@)]
        Index(out, host) == {i \in 1..Len(out) : out[i].host = host}
        Put(out, ns) ==
            LET host == HostToLowerCase(ns.host)
                at == Index(out, host)
            IN  IF at = {} THEN Append(out, Lower(ns))
                ELSE [out EXCEPT ![CHOOSE i \in at : TRUE] = Lower(ns)]
        Acc[i \in 0..Len(list)] == IF i = 0 THEN <<>> ELSE Put(Acc[i - 1], list[i])
    IN  IfNonEmpty(Acc[Len(list)])

\* whois/merge.ts dedupeNameservers: a Map keyed by lower-cased host, in
\* insertion order; a repeated host gets the duplicate-free unions
dedupeNameservers(a, b) ==
    LET list == OrEmpty(a) \o OrEmpty(b)
        Index(out, host) == {i \in 1..Len(out) : out[i].host = host}
        Put(out, ns) ==
            LET host == HostToLowerCase(ns.host)
                at == Index(out, host)
            IN  IF at = {} THEN Append(out, [ns EXCEPT !.host = host])
                ELSE LET i == CHOOSE j \in at : TRUE
                         prev == out[i]
                     IN  [out EXCEPT ![i] =
                            Nameserver(host,
                                       Some(uniq(OrEmpty(prev.ipv4) \o OrEmpty(ns.ipv4))),
                                       Some(uniq(OrEmpty(prev.ipv6) \o OrEmpty(ns.ipv6))))]
        Acc[i \in 0..Len(list)] == IF i = 0 THEN <<>> ELSE Put(Acc[i - 1], list[i])
    IN  IfNonEmpty(Acc[Len(list)])

(***************************************************************************)
(* RDAP documents, the domain fetcher (unnamed/part_021) and the link      *)
(* follower (unnamed/part_018).                                            *)
(***************************************************************************)
RdapDoc(ldh, links, port43) ==
    [ldhName |-> ldh, unicodeName |-> Undefined, handle |-> Undefined, links |-> links,
     port43 |-> port43, secureDNS |-> Undefined, status |-> Undefined, events |-> Undefined,
     nameservers |-> Undefined, entities |-> Undefined, remarks |-> Undefined]

RelatedUrl == Url(100, FALSE)

\* documents a registry answers the domain query with
RdapDocs ==
    { RdapDoc(Some(<<"example", "com">>), <<>>, Undefined),
      RdapDoc(Undefined, <<RelatedUrl>>, Some(Srv(0))) }

\* documents a related link answers with: one about the domain looked up
\* (linking back to the registry), one about another domain
RelatedDocs(d) ==
    { RdapDoc(Some(d), <<Url(1, TRUE)>>, Some(Srv(1))),
      RdapDoc(Some(<<"other", "org">>), <<>>, Undefined) }

HttpFailures == {"http error", "network error", "timeout", "bad json", "abort"}

\* what the fetch of <base>domain/<name> settles with
RdapFetchOutcomes ==
    [kind : {"ok"}, doc : RdapDocs]
    \cup [kind : {"not found"} \cup HttpFailures, doc : {RdapDoc(Undefined, <<>>, Undefined)}]

RelatedFetchOutcomes(d) ==
    [kind : {"ok"}, doc : RelatedDocs(d)]
    \cup [kind : {"not found"} \cup HttpFailures, doc : {RdapDoc(Undefined, <<>>, Undefined)}]

\* a fetch with an aborted signal rejects with an AbortError
Allowed(out, aborted) == aborted => out.kind = "abort"

\* fetchRdapDomain reading an aborted fetch as a 404
fetchRdapDomainAbortIsNotFound(out) ==
    IF out.kind \in {"not found", "abort"} THEN Returned([json |-> Undefined, notFound |-> TRUE])
    ELSE IF out.kind = "ok" THEN Returned([json |-> Some(out.doc), notFound |-> FALSE])
    ELSE Thrown("RDAP lookup failed")

\* fetchRdapDomain throwing on every non-2xx answer, 404 included
fetchRdapDomainThrowsOn404(out) ==
    IF out.kind = "ok" THEN Returned([json |-> Some(out.doc), notFound |-> FALSE])
    ELSE IF out.kind = "abort" THEN ThrownAbort
    ELSE Thrown("RDAP lookup failed")

\* part_021 fetchRdapDomain: 404 is a verdict, any other failure throws
fetchRdapDomain(out) ==
    IF out.kind = "not found" THEN Returned([json |-> Undefined, notFound |-> TRUE])
    ELSE IF out.kind = "ok" THEN Returned([json |-> Some(out.doc), notFound |-> FALSE])
    ELSE IF out.kind = "abort" THEN ThrownAbort
    ELSE Thrown("RDAP lookup failed")

\* part_018 fetchRdapUrl: every non-2xx answer throws
fetchRdapUrl(out) ==
    IF out.kind = "ok" THEN Returned([json |-> Some(out.doc)])
    ELSE IF out.kind = "abort" THEN ThrownAbort
    ELSE Thrown("RDAP link fetch failed")

\* rdap/client.ts extractRdapRelatedLinks, on documents whose links all
\* carry an allowed rel and an RDAP media type
extractRdapRelatedLinks(doc) == Dedupe(doc.links)

\* String.prototype.toLowerCase over event actions and handles
StringToLowerCase(s) ==
    IF s = "Registration" THEN "registration"
    ELSE IF s = "REG-1" THEN "reg-1"
    ELSE s

\* part_018 uniqBy: the first element of each key is kept, in order
uniqBy(arr, key(_)) ==
    LET Acc[i \in 0..Len(arr)] ==
            IF i = 0 THEN <<>>
            ELSE IF \E j \in 1..Len(Acc[i - 1]) : key(Acc[i - 1][j]) = key(arr[i])
                 THEN Acc[i - 1] ELSE Append(Acc[i - 1], arr[i])
    IN  Acc[Len(arr)]

\* the keys of part_018 19-38: eventAction lower-cased and eventDate;
\* handle, roles and vcardArray lower-cased
EventKey(e) == <<StringToLowerCase(e.eventAction), e.eventDate>>
EntityKey(e) == <<StringToLowerCase(e.handle), e.roles, e.vcardArray>>

\* the merge of one document taking over its links as well
MergeDocStepCarriesLinks(m, cur) ==
    [m EXCEPT !.status = Some(uniq(OrEmpty(@) \o OrEmpty(cur.status))),
              !.events = Some(uniqBy(OrEmpty(@) \o OrEmpty(cur.events), EventKey)),
              !.nameservers = Some(uniqByName(OrEmpty(@) \o OrEmpty(cur.nameservers))),
              !.entities = Some(uniqBy(OrEmpty(@) \o OrEmpty(cur.entities), EntityKey)),
              !.secureDNS = IF @ = Undefined THEN cur.secureDNS ELSE @,
              !.port43 = IF @ = Undefined THEN cur.port43 ELSE @,
              !.links = @ \o cur.links,
              !.remarks = IF @ # Undefined \/ cur.remarks # Undefined
                          THEN Some(OrEmpty(@) \o OrEmpty(cur.remarks)) ELSE @]

\* the merge of one document overwriting the scalars the base already has
MergeDocStepOverwrites(m, cur) ==
    [m EXCEPT !.status = Some(uniq(OrEmpty(@) \o OrEmpty(cur.status))),
              !.events = Some(uniqBy(OrEmpty(@) \o OrEmpty(cur.events), EventKey)),
              !.nameservers = Some(uniqByName(OrEmpty(@) \o OrEmpty(cur.nameservers))),
              !.entities = Some(uniqBy(OrEmpty(@) \o OrEmpty(cur.entities), EntityKey)),
              !.secureDNS = IF cur.secureDNS # Undefined THEN cur.secureDNS ELSE @,
              !.port43 = IF cur.port43 # Undefined THEN cur.port43 ELSE @,
              !.remarks = IF @ # Undefined \/ cur.remarks # Undefined
                          THEN Some(OrEmpty(@) \o OrEmpty(cur.remarks)) ELSE @]

\* part_018 12-51: one document merged into the running copy; arrays are
\* concatenated and deduplicated by key, scalars filled when absent,
\* remarks concatenated when either side has them
MergeDocStep(m, cur) ==
    [m EXCEPT !.status = Some(uniq(OrEmpty(@) \o OrEmpty(cur.status))),
              !.events = Some(uniqBy(OrEmpty(@) \o OrEmpty(cur.events), EventKey)),
              !.nameservers = Some(uniqByName(OrEmpty(@) \o OrEmpty(cur.nameservers))),
              !.entities = Some(uniqBy(OrEmpty(@) \o OrEmpty(cur.entities), EntityKey)),
              !.secureDNS = IF @ = Undefined THEN cur.secureDNS ELSE @,
              !.port43 = IF @ = Undefined THEN cur.port43 ELSE @,
              !.remarks = IF @ # Undefined \/ cur.remarks # Undefined
                          THEN Some(OrEmpty(@) \o OrEmpty(cur.remarks)) ELSE @]

\* part_018 mergeRdapDocs: a shallow copy of the base, every other document
\* merged into it in turn; links and the names are the base's
mergeRdapDocs(baseDoc, others) ==
    LET Acc[i \in 0..Len(others)] ==
            IF i = 0 THEN baseDoc ELSE MergeDocStep(Acc[i - 1], others[i])
    IN  Acc[Len(others)]

DefaultMaxRdapLinkHops == 2
\* Math.max(0, opts?.maxRdapLinkHops ?? 2)
MaxLinkHops(o) == Max(0, OrElse(o.maxRdapLinkHops, DefaultMaxRdapLinkHops))

\* part_018 72-77 and 95-99: the loop head, up to the first fetch of a
\* batch or the return
RelLoopHead(r, o) ==
    LET links == extractRdapRelatedLinks(r.current)
        nextBatch == SelectSeq(links, LAMBDA u : u \notin r.visited)
    IN  IF ~(r.hops < MaxLinkHops(o)) \/ nextBatch = <<>>
        THEN [r EXCEPT !.phase = "returned", !.batch = <<>>]
        ELSE [r EXCEPT !.phase = "awaiting", !.batch = nextBatch, !.fetchedDocs = <<>>]

\* part_018 61-69: fetchAndMergeRdapRelated up to its first await
RelStart(baseDoc, o) ==
    LET r0 == [phase |-> "returned", current |-> baseDoc, visited |-> {}, hops |-> 0,
               batch |-> <<>>, fetchedDocs |-> <<>>, tried |-> <<>>]
    IN  IF o.rdapFollowLinks = Some(FALSE) THEN r0
        ELSE IF MaxLinkHops(o) = 0 THEN r0
        ELSE RelLoopHead(r0, o)

\* String.prototype.toLowerCase over the labels of a domain name
LabelToLowerCase(l) ==
    IF l \in {"Example", "EXAMPLE"} THEN "example"
    ELSE IF l = "COM" THEN "com"
    ELSE l
DomainToLowerCase(d) == [i \in DOMAIN d |-> LabelToLowerCase(d[i])]

\* part_018 sameDomain
sameDomain(a, b) == DomainToLowerCase(a) = DomainToLowerCase(b)

\* the name check looking at ldhName only
MismatchLdhOnly(doc, d) == doc.ldhName # Undefined /\ ~sameDomain(doc.ldhName[1], d)

\* part_018 84-87: ldh && !sameDomain(ldh, domain), uni && !sameDomain(uni, domain)
Mismatch(doc, d) ==
    \/ doc.ldhName # Undefined /\ ~sameDomain(doc.ldhName[1], d)
    \/ doc.unicodeName # Undefined /\ ~sameDomain(doc.unicodeName[1], d)

\* part_018 79-98: one link fetch settles
RelFetched(r, out, d, o) ==
    LET url == r.batch[1]
        got == fetchRdapUrl(out)
        r1 == [r EXCEPT !.visited = @ \cup {url}, !.batch = Tail(@)]
        r2 == IF got.threw THEN r1
              ELSE IF Mismatch(got.value.json[1], d)
                   THEN [r1 EXCEPT !.tried = Append(@, url)]
              ELSE [r1 EXCEPT !.tried = Append(@, url),
                              !.fetchedDocs = Append(@, got.value.json[1])]
    IN  IF r2.batch # <<>> THEN r2
        ELSE IF r2.fetchedDocs = <<>> THEN [r2 EXCEPT !.phase = "returned"]
        ELSE RelLoopHead([r2 EXCEPT !.current = mergeRdapDocs(@, r2.fetchedDocs),
                                    !.hops = @ + 1], o)

(***************************************************************************)
(* The normalizers and the WHOIS record merger.                            *)
(***************************************************************************)
\* normalizeRdap (rdap/bootstrap.test.ts 471-614)
normalizeRdap(d, tld, doc, rdapServersTried) ==
    [domain |-> IF doc.ldhName # Undefined THEN doc.ldhName[1] ELSE d,
     tld |-> tld,
     isRegistered |-> TRUE,
     nameservers |-> RdapNameservers(doc),
     whoisServer |-> doc.port43,
     rdapServers |-> Some(rdapServersTried),
     source |-> "rdap"]

\* lookup's record for a 404 (index.ts 54-60)
NotFoundRecord(d, tld, rdapServersTried) ==
    [domain |-> d, tld |-> tld, isRegistered |-> FALSE,
     nameservers |-> Undefined, whoisServer |-> Undefined,
     rdapServers |-> Some(rdapServersTried), source |-> "rdap"]

\* an ISO 8601 string in the form toISO gives it, one per instant
Iso(n) == [instant |-> n]
\* new Date(iso)
NewDate(iso) == iso.instant
\* lib/dates.ts toISO over what a date line holds: the instant it names
toISO(raw) == IF raw = Undefined THEN Undefined ELSE Some(Iso(raw[1].instant))

\* what normalize.ts extracts for a field from the lines of the text:
\* nothing when the text has no line for it
WhoisParsed(text, field) == IF field \in DOMAIN text THEN text[field] ELSE Undefined

\* normalize.ts 44-250: the record built from a WHOIS text, includeRaw
\* being false
WhoisRecord(d, tld, text, server, source) ==
    [domain |-> d,
     tld |-> tld,
     isRegistered |-> ~isAvailableByWhois(text),
     registry |-> Undefined,
     registrar |-> WhoisParsed(text, "registrar"),
     reseller |-> WhoisParsed(text, "reseller"),
     creationDate |-> toISO(WhoisParsed(text, "creationDate")),
     updatedDate |-> toISO(WhoisParsed(text, "updatedDate")),
     expirationDate |-> toISO(WhoisParsed(text, "expirationDate")),
     deletionDate |-> Undefined,
     dnssec |-> WhoisParsed(text, "dnssec"),
     nameservers |-> WhoisNameservers(text),
     privacyEnabled |-> IF WhoisParsed(text, "privacy") = Some(TRUE) THEN Some(TRUE) ELSE Undefined,
     whoisServer |-> Some(server),
     rdapServers |-> Undefined,
     rawWhois |-> Undefined,
     source |-> source]

\* normalizeWhois labelling its record with the protocol tried first
normalizeWhoisSourceRdap(d, tld, text, server) == WhoisRecord(d, tld, text, server, "rdap")

\* whois/normalize.ts normalizeWhois
normalizeWhois(d, tld, text, server) == WhoisRecord(d, tld, text, server, "whois")

\* b ?? a
NullishPrefersLater(a, b) == IF b # Undefined THEN b ELSE a

\* a ?? b
Nullish(a, b) == IF a # Undefined THEN a ELSE b

\* the later of two dates kept as the creation date
preferEarliestIsoTakesLatest(a, b) ==
    IF a = Undefined THEN b
    ELSE IF b = Undefined THEN a
    ELSE IF NewDate(a[1]) >= NewDate(b[1]) THEN a ELSE b

\* merge.ts 86-90 preferEarliestIso
preferEarliestIso(a, b) ==
    IF a = Undefined THEN b
    ELSE IF b = Undefined THEN a
    ELSE IF NewDate(a[1]) <= NewDate(b[1]) THEN a ELSE b

\* merge.ts 92-96 preferLatestIso
preferLatestIso(a, b) ==
    IF a = Undefined THEN b
    ELSE IF b = Undefined THEN a
    ELSE IF NewDate(a[1]) >= NewDate(b[1]) THEN a ELSE b

\* the loop body with the registration flag taken from the later record
MergeStepLastRegistration(m, cur) ==
    [m EXCEPT !.isRegistered = cur.isRegistered,
              !.registry = Nullish(@, cur.registry),
              !.registrar = Nullish(@, cur.registrar),
              !.reseller = Nullish(@, cur.reseller),
              !.creationDate = preferEarliestIso(@, cur.creationDate),
              !.updatedDate = preferLatestIso(@, cur.updatedDate),
              !.expirationDate = preferLatestIso(@, cur.expirationDate),
              !.deletionDate = Nullish(@, cur.deletionDate),
              !.dnssec = Nullish(@, cur.dnssec),
              !.nameservers = dedupeNameservers(@, cur.nameservers),
              !.privacyEnabled = Nullish(@, cur.privacyEnabled),
              !.whoisServer = Nullish(cur.whoisServer, @),
              !.rawWhois = Nullish(cur.rawWhois, @)]

\* the loop body keeping the whoisServer and rawWhois it already has
MergeStepFirstServer(m, cur) ==
    [m EXCEPT !.isRegistered = @ \/ cur.isRegistered,
              !.registry = Nullish(@, cur.registry),
              !.registrar = Nullish(@, cur.registrar),
              !.reseller = Nullish(@, cur.reseller),
              !.creationDate = preferEarliestIso(@, cur.creationDate),
              !.updatedDate = preferLatestIso(@, cur.updatedDate),
              !.expirationDate = preferLatestIso(@, cur.expirationDate),
              !.deletionDate = Nullish(@, cur.deletionDate),
              !.dnssec = Nullish(@, cur.dnssec),
              !.nameservers = dedupeNameservers(@, cur.nameservers),
              !.privacyEnabled = Nullish(@, cur.privacyEnabled),
              !.whoisServer = Nullish(@, cur.whoisServer),
              !.rawWhois = Nullish(@, cur.rawWhois)]

\* merge.ts 56-82: the body of the loop over `others`
MergeStep(m, cur) ==
    [m EXCEPT !.isRegistered = @ \/ cur.isRegistered,
              !.registry = Nullish(@, cur.registry),
              !.registrar = Nullish(@, cur.registrar),
              !.reseller = Nullish(@, cur.reseller),
              !.creationDate = preferEarliestIso(@, cur.creationDate),
              !.updatedDate = preferLatestIso(@, cur.updatedDate),
              !.expirationDate = preferLatestIso(@, cur.expirationDate),
              !.deletionDate = Nullish(@, cur.deletionDate),
              !.dnssec = Nullish(@, cur.dnssec),
              !.nameservers = dedupeNameservers(@, cur.nameservers),
              !.privacyEnabled = Nullish(@, cur.privacyEnabled),
              !.whoisServer = Nullish(cur.whoisServer, @),
              !.rawWhois = Nullish(cur.rawWhois, @)]

mergeWhoisRecordsDedupesBase(base, others) ==
    LET Acc[i \in 0..Len(others)] ==
            IF i = 0
            THEN [base EXCEPT !.nameservers = dedupeNameservers(@, Undefined)]
            ELSE MergeStep(Acc[i - 1], others[i])
    IN  Acc[Len(others)]

\* whois/merge.ts mergeWhoisRecords
mergeWhoisRecords(base, others) ==
    LET Acc[i \in 0..Len(others)] ==
            IF i = 0 THEN base ELSE MergeStep(Acc[i - 1], others[i])
    IN  Acc[Len(others)]

(***************************************************************************)
(* The authoritative WHOIS locator (whois/discovery.ts).                   *)
(***************************************************************************)
IanaLine(key, value) == [key |-> key, value |-> value]

\* answers of whois.iana.org: the whois field filled, blank with a refer
\* field, blank, or absent; with or without a registration-info URL
IanaTexts ==
    { [fields |-> <<IanaLine("whois", Some(Srv(0)))>>, url |-> FALSE],
      [fields |-> <<IanaLine("refer", Some(SrvScheme(0))), IanaLine("whois", Undefined)>>,
       url |-> TRUE],
      [fields |-> <<IanaLine("whois", Undefined)>>, url |-> TRUE],
      [fields |-> <<>>, url |-> FALSE] }

IanaOutcomes == [ok : {TRUE}, text : IanaTexts] \cup {[ok |-> FALSE, error |-> "WHOIS timeout"]}

\* discovery.ts parseIanaWhoisServer: fields in priority order, blank values skipped
parseIanaWhoisServer(text) ==
    LET Filled(key) == SelectSeq(text.fields, LAMBDA l : l.key = key /\ l.value # Undefined)
    IN  IF Filled("whois") # <<>> THEN Filled("whois")[1].value
        ELSE IF Filled("refer") # <<>> THEN Filled("refer")[1].value
        ELSE IF Filled("whois server") # <<>> THEN Filled("whois server")[1].value
        ELSE Undefined

\* discovery.ts parseIanaRegistrationInfoUrl
parseIanaRegistrationInfoUrl(text) == text.url

\* discovery.ts normalizeServer (server strings of the model carry no trailing "/")
normalizeServer(server) == StripScheme(server)

\* whois/servers.ts WHOIS_TLD_EXCEPTIONS, the entries for the suffixes of the
\* domains looked up: com and br at their registries, uk.com at CentralNic
WHOIS_TLD_EXCEPTIONS ==
    [t \in {Tld(<<"com">>), Tld(<<"br">>), Tld(<<"uk", "com">>)} |->
        IF t = Tld(<<"uk", "com">>) THEN Srv(3) ELSE Srv(0)]

HintFor(o, key) ==
    IF o.whoisHints # Undefined /\ key \in DOMAIN o.whoisHints[1]
    THEN Some(o.whoisHints[1][key]) ELSE Undefined

\* the empty string, the one server string that is falsy
EmptyString == [scheme |-> FALSE, upper |-> FALSE, name |-> 0 - 1]

\* if (hint): an entry is used unless it is undefined or ""
HasHint(o, key) == HintFor(o, key) # Undefined /\ HintFor(o, key)[1] # EmptyString

ianaWhoisServerForTldThrowSkipsTable(tld, o, out) ==
    LET key == TldToLowerCase(tld)
        hint == HintFor(o, key)
        parsed == IF out.ok THEN parseIanaWhoisServer(out.text) ELSE Undefined
    IN  IF HasHint(o, key) THEN [server |-> Some(normalizeServer(hint[1])), queried |-> FALSE]
        ELSE IF parsed # Undefined
             THEN [server |-> Some(normalizeServer(parsed[1])), queried |-> TRUE]
        ELSE IF out.ok /\ key \in DOMAIN WHOIS_TLD_EXCEPTIONS
             THEN [server |-> Some(normalizeServer(WHOIS_TLD_EXCEPTIONS[key])), queried |-> TRUE]
        ELSE [server |-> Undefined, queried |-> TRUE]

\* discovery.ts ianaWhoisServerForTld; `out` is what the query of
\* whois.iana.org settles with, read only when no hint names the TLD
ianaWhoisServerForTld(tld, o, out) ==
    LET key == TldToLowerCase(tld)
        hint == HintFor(o, key)
        parsed == IF out.ok THEN parseIanaWhoisServer(out.text) ELSE Undefined
    IN  IF HasHint(o, key) THEN [server |-> Some(normalizeServer(hint[1])), queried |-> FALSE]
        ELSE IF parsed # Undefined
             THEN [server |-> Some(normalizeServer(parsed[1])), queried |-> TRUE]
        ELSE IF key \in DOMAIN WHOIS_TLD_EXCEPTIONS
             THEN [server |-> Some(normalizeServer(WHOIS_TLD_EXCEPTIONS[key])), queried |-> TRUE]
        ELSE [server |-> Undefined, queried |-> TRUE]

\* discovery.ts getIanaWhoisTextForTld
getIanaWhoisTextForTld(out) == IF out.ok THEN Some(out.text) ELSE Undefined

(***************************************************************************)
(* lookup (index.ts 23-135): its settled values.                           *)
(***************************************************************************)
NoResult == [state |-> "pending", ok |-> FALSE, record |-> Undefined, error |-> Undefined]
Ok(record) == [state |-> "resolved", ok |-> TRUE, record |-> Some(record), error |-> Undefined]
Fail(msg) == [state |-> "resolved", ok |-> FALSE, record |-> Undefined, error |-> Some(msg)]

\* the catch rethrowing: the promise rejects
CaughtRethrows(msg) ==
    [state |-> "rejected", ok |-> FALSE, record |-> Undefined, error |-> Some(msg)]

\* index.ts 131-134: the catch around the whole body
Caught(msg) == Fail(msg)

ErrRdapOnly == "RDAP not available or failed for TLD"
ErrNoWhoisServer == "No WHOIS server discovered for TLD"
ErrNoWhoisServerHint == "No WHOIS server discovered for TLD. See registration info"

\* index.ts 121-130: normalize every response of the chain and merge
CoalesceChain(d, tld, chain) ==
    LET recs == [i \in 1..Len(chain) |->
                    normalizeWhois(d, tld, chain[i].text, chain[i].serverQueried)]
    IN  IF Len(recs) = 0 THEN Fail("No WHOIS data retrieved")
        ELSE IF Len(recs) > 1 THEN Ok(mergeWhoisRecords(recs[1], Tail(recs)))
        ELSE Ok(recs[1])

(***************************************************************************)
(* The options bag.  Boolean flags read by truthiness are FALSE when       *)
(* absent; options read with ?? or === are optional values.                *)
(***************************************************************************)
DefaultOpts ==
    [whoisOnly |-> FALSE, rdapOnly |-> FALSE,
     followWhoisReferral |-> Undefined, maxWhoisReferralHops |-> Undefined,
     rdapFollowLinks |-> Undefined, maxRdapLinkHops |-> Undefined,
     customBootstrapData |-> Undefined, customBootstrapUrl |-> Undefined,
     whoisHints |-> Undefined]

FollowChoices == {Undefined, Some(TRUE), Some(FALSE)}
HopChoices == {Undefined} \cup {Some(n) : n \in (0 - 1)..MaxHopsOpt}

NoOp == [kind |-> "none", outcome |-> "none", ret |-> "none"]
NoRel == [phase |-> "idle"]

\* one entry of the walker's query history
Queried(server, out) ==
    [server |-> server, res |-> IF out.ok THEN Some(out.text) ELSE Undefined]

(***************************************************************************)
(* WalkSpec: one call of followWhoisReferrals or collectWhoisReferralChain *)
(* against an arbitrary referral graph over the hosts 0..MaxHopsOpt+1.     *)
(***************************************************************************)
WalkHosts == MaxHopsOpt + 1
InitialServers == {Srv(0), SrvScheme(0)}

WalkInit ==
    /\ pc = "walkFirst"
    /\ domain = "example.com"
    /\ opts \in {[DefaultOpts EXCEPT !.followWhoisReferral = f,
                                     !.maxWhoisReferralHops = h] :
                    f \in FollowChoices, h \in HopChoices}
    /\ bases = <<>>
    /\ tried = <<>>
    /\ rel = NoRel
    /\ whoisServer \in {Some(s) : s \in InitialServers}
    /\ walk \in {[NoWalk EXCEPT !.fn = fn] : fn \in {"follow", "collect"}}
    /\ result = NoResult
    /\ signalAborted = FALSE
    /\ lastOp = NoOp
    /\ issued = {}
    /\ wlog = <<>>
    /\ leftOpen = {}
    /\ parked = NoCaller

\* await whoisQuery(initialServer, domain, opts), then up to the next await
WalkFirstQuery ==
    /\ pc = "walkFirst"
    /\ \E out \in WhoisOutcomesOver(WalkHosts) :
        LET w == WalkerFirst(walk.fn, whoisServer[1], out, opts)
        IN  /\ walk' = w
            /\ wlog' = Append(wlog, Queried(whoisServer[1], out))
            /\ pc' = IF w.phase = "awaiting" THEN "walkHop" ELSE "walkDone"
            /\ leftOpen' = leftOpen \cup WhoisLeftOpen(out)
    /\ UNCHANGED <<parked, domain, opts, bases, tried, rel, whoisServer, result,
                   signalAborted, lastOp, issued>>

\* await whoisQuery(next, domain, opts) inside the loop
WalkHopQuery ==
    /\ pc = "walkHop"
    /\ \E out \in WhoisOutcomesOver(WalkHosts) :
        LET w == WalkerHop(walk, out, opts)
        IN  /\ walk' = w
            /\ wlog' = Append(wlog, Queried(walk.next[1], out))
            /\ pc' = IF w.phase = "awaiting" THEN "walkHop" ELSE "walkDone"
            /\ leftOpen' = leftOpen \cup WhoisLeftOpen(out)
    /\ UNCHANGED <<parked, domain, opts, bases, tried, rel, whoisServer, result,
                   signalAborted, lastOp, issued>>

WalkNext == WalkFirstQuery \/ WalkHopQuery

WalkSpec == WalkInit /\ [][WalkNext]_vars

(***************************************************************************)
(* C3 (WalkSpec).  With n the hop budget (maxWhoisReferralHops, 2 when     *)
(* absent, 0 when negative): a walker never issues more than n + 1 WHOIS   *)
(* queries and either has returned/thrown or can take its next step; a     *)
(* returned chain has between 1 and n + 1 elements and starts with the     *)
(* initial server's response; exactly one query was made when              *)
(* followWhoisReferral is false, n = 0 or the first response carries no    *)
(* referral line.                                                          *)
(***************************************************************************)
HopBudget ==
    LET v == opts.maxWhoisReferralHops
    IN  IF v = Undefined THEN 2 ELSE IF v[1] < 0 THEN 0 ELSE v[1]

HasReferralLine(text) ==
    \E i \in 1..Len(text.refs) :
        \/ text.refs[i].key \in {"registrar whois server", "whois server"}
        \/ text.refs[i].key = "referralserver" /\ text.refs[i].value.scheme

C3_BoundedHops ==
    /\ Len(wlog) <= HopBudget + 1
    /\ pc = "walkDone" \/ ENABLED WalkNext
    /\ (pc = "walkDone" /\ walk.phase = "returned") =>
        /\ walk.current[1].text \in {wlog[i].res[1] : i \in {j \in 1..Len(wlog) : wlog[j].res # Undefined}}
        /\ walk.fn = "collect" =>
            /\ Len(walk.results) >= 1
            /\ Len(walk.results) <= HopBudget + 1
            /\ walk.results[1] = [serverQueried |-> whoisServer[1], text |-> wlog[1].res[1]]
        /\ (\/ opts.followWhoisReferral = Some(FALSE)
            \/ HopBudget = 0
            \/ ~HasReferralLine(wlog[1].res[1])) => Len(wlog) = 1

\* the hop budget, not the supply of hosts, ended a walk of n + 1 queries
C3_Witness ==
    /\ pc = "walkDone"
    /\ walk.fn = "collect"
    /\ HopBudget = 2
    /\ Len(wlog) = 3
    /\ Len(walk.results) = 3
    /\ extractWhoisReferral(walk.current[1].text) # Undefined
    /\ normalize(extractWhoisReferral(walk.current[1].text)[1]) \notin walk.visited

(***************************************************************************)
(* Spec: one call of lookup(domain, opts) (index.ts 23-135).               *)
(***************************************************************************)
HintChoices == {Undefined, Some([t \in {Tld(<<"com">>)} |-> SrvScheme(0)])}
CustomDataChoices ==
    {Undefined, Some(DataNull), Some(DataBadEntry), Some(BootDoc(MaxBases, FALSE))}

\* The protocol options vary with the walker's options absent.
ProtocolBags ==
    [whoisOnly : BOOLEAN, rdapOnly : BOOLEAN,
     followWhoisReferral : {Undefined}, maxWhoisReferralHops : {Undefined},
     rdapFollowLinks : {Undefined}, maxRdapLinkHops : {Undefined},
     customBootstrapData : CustomDataChoices, customBootstrapUrl : {Undefined},
     whoisHints : HintChoices]

\* The walker's options, which only the walker reads, vary for a
\* WHOIS-only call.
WalkerBags ==
    [whoisOnly : {TRUE}, rdapOnly : {FALSE},
     followWhoisReferral : FollowChoices, maxWhoisReferralHops : HopChoices,
     rdapFollowLinks : {Undefined}, maxRdapLinkHops : {Undefined},
     customBootstrapData : {Undefined}, customBootstrapUrl : {Undefined},
     whoisHints : {Undefined}]

\* values of customBootstrapData that are not a BootstrapData
InvalidCustomData ==
    {DataNull, DataUndefined, DataString, DataNumber, DataArray, DataNoServices, DataBadEntry}

\* The bootstrap options vary for a call that may use RDAP: a document or
\* any other value under customBootstrapData, with or without a
\* customBootstrapUrl.
BootstrapBags ==
    [whoisOnly : {FALSE}, rdapOnly : BOOLEAN,
     followWhoisReferral : {Undefined}, maxWhoisReferralHops : {Undefined},
     rdapFollowLinks : {Undefined}, maxRdapLinkHops : {Undefined},
     customBootstrapData : {Some(v) : v \in InvalidCustomData \cup {BootDoc(1, TRUE)}},
     customBootstrapUrl : {Undefined, Some("https://mirror.example/dns.json")},
     whoisHints : {Undefined}]

LookupCalls ==
    (Domains \X ProtocolBags)
    \cup ({<<"example", "com">>} \X WalkerBags)
    \cup ({<<"example", "com">>, <<"example", "com", "br">>} \X BootstrapBags)

Init ==
    /\ pc = "start"
    /\ \E c \in LookupCalls : domain = c[1] /\ opts = c[2]
    /\ bases = <<>>
    /\ tried = <<>>
    /\ rel = NoRel
    /\ whoisServer = Undefined
    /\ walk = NoWalk
    /\ result = NoResult
    /\ signalAborted = FALSE
    /\ lastOp = NoOp
    /\ issued = {}
    /\ wlog = <<>>
    /\ leftOpen = {}
    /\ parked = NoCaller

TldOf(d) == PublicSuffix(d)[1]
Op(kind, outcome) == [kind |-> kind, outcome |-> outcome, ret |-> "none"]
\* the bootstrap resolver settled: how its fetch ended and what it returned
BootOp(outcome, got) ==
    [kind |-> "bootstrap", outcome |-> outcome,
     ret |-> IF got.threw THEN "threw" ELSE IF got.value = <<>> THEN "no base" ELSE "bases"]

\* return / throw-and-catch: the call settles
Finish(res) == pc' = "done" /\ result' = res

\* index.ts 81-88: after the loop over the bases
RdapExhausted ==
    /\ bases' = <<>>
    /\ tried' = <<>>
    /\ IF opts.rdapOnly THEN Finish(Fail(ErrRdapOnly))
       ELSE pc' = "locate" /\ result' = result

\* `if (!opts?.whoisOnly) { ...RDAP... }` with the flag ignored
AlwaysAttemptRdap(o) == TRUE

\* index.ts 38: `!opts?.whoisOnly`
AttemptRdap(o) == ~o.whoisOnly

\* index.ts 28-38: input checks, up to the first await
LookupStart ==
    /\ pc = "start"
    /\ IF ~isLikelyDomain(domain) THEN Finish(Fail("Input does not look like a domain"))
       ELSE IF PublicSuffix(domain) = Undefined THEN Finish(Fail("Invalid TLD"))
       ELSE /\ pc' = IF AttemptRdap(opts) THEN "bootstrap" ELSE "locate"
            /\ result' = result
    /\ UNCHANGED <<parked, domain, opts, bases, tried, rel, whoisServer, walk,
                   signalAborted, lastOp, issued, wlog, leftOpen>>

\* index.ts 39-48: await getRdapBaseUrlsForTld, for the public suffix and,
\* when that yields nothing for a multi-label suffix, for its last label
BootstrapResolve ==
    /\ pc \in {"bootstrap", "bootstrapRetry"}
    /\ \E out \in BootFetchOutcomes :
        /\ Allowed(out, signalAborted)
        /\ UsesCustomData(opts) => out.kind = "timeout"
        /\ LET tld == TldOf(domain)
               arg == IF pc = "bootstrap" THEN tld ELSE LastLabel(tld)
               got == getRdapBaseUrlsForTld(arg, opts, out)
               fetched == ~UsesCustomData(opts)
           IN  /\ issued' = issued \cup {"bootstrap"} \cup (IF fetched THEN {"http", BootstrapUrl(opts)} ELSE {})
               /\ lastOp' = BootOp(IF fetched THEN out.kind ELSE "custom", got)
               /\ leftOpen' = leftOpen \cup (IF fetched THEN HttpLeftOpen(out) ELSE {})
               /\ signalAborted' = (signalAborted \/ (fetched /\ out.kind = "abort"))
               /\ IF got.threw
                  THEN Finish(Caught(got.error)) /\ UNCHANGED <<bases, tried>>
                  ELSE IF got.value = <<>> /\ pc = "bootstrap" /\ IsMultiLabel(tld)
                  THEN pc' = "bootstrapRetry" /\ UNCHANGED <<bases, tried, result>>
                  ELSE IF got.value = <<>>
                  THEN RdapExhausted
                  ELSE /\ bases' = got.value
                       /\ tried' = <<got.value[1]>>
                       /\ pc' = "rdap"
                       /\ result' = result
    /\ UNCHANGED <<parked, domain, opts, rel, whoisServer, walk, wlog>>

\* the RDAP path discarding a document it fetched
RdapRecordDiscarded(r) == Fail("RDAP lookup failed")

\* index.ts 69-76: the record of the RDAP path
RdapRecord(r) ==
    Ok(normalizeRdap(domain, TldOf(domain), r.current, tried \o r.tried))

\* index.ts 47-80: await fetchRdapDomain for the base pushed on `tried`
RdapFetchDomain ==
    /\ pc = "rdap"
    /\ \E out \in RdapFetchOutcomes :
        /\ Allowed(out, signalAborted)
        /\ LET got == fetchRdapDomain(out)
               r == RelStart(got.value.json[1], opts)
           IN  /\ issued' = issued \cup {"http"}
               /\ lastOp' = Op("rdap domain", out.kind)
               /\ leftOpen' = leftOpen \cup HttpLeftOpen(out)
               /\ signalAborted' = (signalAborted \/ out.kind = "abort")
               /\ IF got.threw
                  THEN /\ rel' = rel
                       /\ IF Len(tried) < Len(bases)
                          THEN /\ tried' = Append(tried, bases[Len(tried) + 1])
                               /\ UNCHANGED <<pc, bases, result>>
                          ELSE RdapExhausted
                  ELSE IF got.value.notFound
                  THEN /\ Finish(Ok(NotFoundRecord(domain, TldOf(domain), tried)))
                       /\ UNCHANGED <<bases, tried, rel>>
                  ELSE IF r.phase = "returned"
                  THEN Finish(RdapRecord(r)) /\ rel' = r /\ UNCHANGED <<bases, tried>>
                  ELSE pc' = "rdapRelated" /\ rel' = r /\ UNCHANGED <<bases, tried, result>>
    /\ UNCHANGED <<parked, domain, opts, whoisServer, walk, wlog>>

\* index.ts 64-76: await fetchRdapUrl inside fetchAndMergeRdapRelated
RdapFetchRelatedFrom(outcomes) ==
    /\ pc = "rdapRelated"
    /\ \E out \in outcomes :
        /\ Allowed(out, signalAborted)
        /\ LET r == RelFetched(rel, out, domain, opts)
           IN  /\ issued' = issued \cup {"http"}
               /\ lastOp' = Op("rdap related", out.kind)
               /\ leftOpen' = leftOpen \cup HttpLeftOpen(out)
               /\ signalAborted' = (signalAborted \/ out.kind = "abort")
               /\ rel' = r
               /\ IF r.phase = "returned" THEN Finish(RdapRecord(r))
                  ELSE UNCHANGED <<pc, result>>
    /\ UNCHANGED <<parked, domain, opts, bases, tried, whoisServer, walk, wlog>>

RdapFetchRelated == RdapFetchRelatedFrom(RelatedFetchOutcomes(domain))

\* index.ts 91-92: await ianaWhoisServerForTld
WhoisLocate ==
    /\ pc = "locate"
    /\ \E out \in IanaOutcomes :
        /\ HasHint(opts, TldToLowerCase(TldOf(domain))) => ~out.ok
        /\ LET loc == ianaWhoisServerForTld(TldOf(domain), opts, out)
           IN  /\ issued' = issued \cup (IF loc.queried THEN {"whois"} ELSE {})
               /\ lastOp' = Op("locate", IF ~loc.queried THEN "hint"
                                         ELSE IF out.ok THEN "ok" ELSE "failed")
               /\ leftOpen' = leftOpen \cup (IF loc.queried THEN WhoisLeftOpen(out) ELSE {})
               /\ whoisServer' = loc.server
               /\ pc' = IF loc.server = Undefined THEN "ianaText" ELSE "whoisFirst"
    /\ UNCHANGED <<parked, domain, opts, bases, tried, rel, walk, result, signalAborted, wlog>>

\* index.ts 93-103: await getIanaWhoisTextForTld, then the failure
IanaTextQuery ==
    /\ pc = "ianaText"
    /\ \E out \in IanaOutcomes :
        LET ianaText == getIanaWhoisTextForTld(out)
            regUrl == ianaText # Undefined /\ parseIanaRegistrationInfoUrl(ianaText[1])
        IN  /\ issued' = issued \cup {"whois"}
            /\ lastOp' = Op("iana text", IF out.ok THEN "ok" ELSE "failed")
            /\ leftOpen' = leftOpen \cup WhoisLeftOpen(out)
            /\ Finish(Fail(IF regUrl THEN ErrNoWhoisServerHint ELSE ErrNoWhoisServer))
    /\ UNCHANGED <<parked, domain, opts, bases, tried, rel, whoisServer, walk, signalAborted, wlog>>

\* index.ts 107-130: what lookup does with the walker's state after a query
AfterWalkerStep(w) ==
    IF w.phase = "threw" THEN Finish(Caught(w.error[1]))
    ELSE IF w.phase = "returned"
    THEN Finish(CoalesceChain(domain, TldOf(domain), WalkerValue(w)))
    ELSE pc' = "whoisHop" /\ result' = result

\* index.ts 107: collectWhoisReferralChain, its first query, settling with
\* one of `outs`
WhoisFirstQueryOver(outs) ==
    /\ pc = "whoisFirst"
    /\ \E out \in outs :
        LET w == WalkerFirst("collect", whoisServer[1], out, opts)
        IN  /\ walk' = w
            /\ wlog' = Append(wlog, Queried(whoisServer[1], out))
            /\ issued' = issued \cup {"whois"}
            /\ lastOp' = Op("whois", IF out.ok THEN "ok" ELSE "failed")
            /\ leftOpen' = leftOpen \cup WhoisLeftOpen(out)
            /\ AfterWalkerStep(w)
    /\ UNCHANGED <<parked, domain, opts, bases, tried, rel, whoisServer, signalAborted>>

\* index.ts 107: collectWhoisReferralChain, the query of a referred
\* server, settling with one of `outs`
WhoisHopQueryOver(outs) ==
    /\ pc = "whoisHop"
    /\ \E out \in outs :
        LET w == WalkerHop(walk, out, opts)
        IN  /\ walk' = w
            /\ wlog' = Append(wlog, Queried(walk.next[1], out))
            /\ issued' = issued \cup {"whois"}
            /\ lastOp' = Op("whois", IF out.ok THEN "ok" ELSE "failed")
            /\ leftOpen' = leftOpen \cup WhoisLeftOpen(out)
            /\ AfterWalkerStep(w)
    /\ UNCHANGED <<parked, domain, opts, bases, tried, rel, whoisServer, signalAborted>>

WhoisFirstQuery == WhoisFirstQueryOver(PlainWhoisOutcomesOver(MaxHopsOpt))
WhoisHopQuery == WhoisHopQueryOver(PlainWhoisOutcomesOver(MaxHopsOpt))

Next ==
    \/ LookupStart
    \/ BootstrapResolve
    \/ RdapFetchDomain
    \/ RdapFetchRelated
    \/ WhoisLocate
    \/ IanaTextQuery
    \/ WhoisFirstQuery
    \/ WhoisHopQuery

Spec == Init /\ [][Next]_vars

(***************************************************************************)
(* Helpers of the properties below.                                        *)
(***************************************************************************)
IsPrefix(xs, ys) == Len(xs) <= Len(ys) /\ xs = SubSeq(ys, 1, Len(xs))
Record == result.record[1]
WhoisPcs == {"locate", "ianaText", "whoisFirst", "whoisHop"}
RdapPcs == {"bootstrap", "bootstrapRetry", "rdap", "rdapRelated"}
BootstrapFetchFailures == {"http error", "network error", "timeout", "bad json"}

(***************************************************************************)
(* C1.  In the WHOIS path of lookup, when the response of an upstream      *)
(* server (the registry or an adopted hop) reads as registered and the     *)
(* response of the server it refers to reads as available, both read as    *)
(* the normalizer reads them, the downstream response is not adopted: the  *)
(* returned record has isRegistered = true and its whoisServer is the      *)
(* upstream server.                                                        *)
(***************************************************************************)
C1_ContradictionNotAdopted ==
    (pc = "done" /\ result.ok /\ lastOp.kind = "whois") =>
        \A i \in 1..(Len(wlog) - 1) :
            ( /\ wlog[i].res # Undefined
              /\ wlog[i + 1].res # Undefined
              /\ ~isAvailableByWhois(wlog[i].res[1])
              /\ isAvailableByWhois(wlog[i + 1].res[1]) )
            => /\ Record.isRegistered
               /\ Record.whoisServer = Some(wlog[i].server)

C4_FirstSuccessfulBaseWins ==
    /\ pc \in {"rdap", "rdapRelated"} => Len(tried) >= 1 /\ IsPrefix(tried, bases)
    /\ ((lastOp.kind = "rdap domain" /\ lastOp.outcome = "ok") \/ lastOp.kind = "rdap related") =>
        /\ "whois" \notin issued
        /\ IsPrefix(tried, bases)
        /\ \/ pc = "rdapRelated" /\ ENABLED RdapFetchRelated /\ ~ENABLED RdapFetchDomain
           \/ /\ pc = "done"
              /\ result.ok
              /\ Record.source = "rdap"
              /\ Record.isRegistered
              /\ IsPrefix(tried, Record.rdapServers[1])
              /\ ~ENABLED Next

\* the first of two bases answered 2xx; the second was never fetched
C4_Witness ==
    /\ ~opts.whoisOnly
    /\ pc = "done"
    /\ lastOp.kind = "rdap related"
    /\ result.ok
    /\ Len(tried) = 1
    /\ Len(bases) = 2

C6_RdapOnlyNeverWhois ==
    opts.rdapOnly =>
        /\ "whois" \notin issued
        /\ pc \notin WhoisPcs
        /\ (pc = "done" /\ ~result.ok /\ lastOp.kind \in {"bootstrap", "rdap domain"}
              /\ lastOp.ret # "threw")
            => result = Fail(ErrRdapOnly)

(***************************************************************************)
(* C7.  When whoisOnly is true, lookup performs no bootstrap resolution    *)
(* (a supplied customBootstrapData is not validated) and no RDAP request,  *)
(* and every ok:true result has source = "whois".                          *)
(***************************************************************************)
C7_WhoisOnlySkipsRdap ==
    opts.whoisOnly =>
        /\ "bootstrap" \notin issued
        /\ "http" \notin issued
        /\ pc \notin RdapPcs
        /\ bases = <<>> /\ tried = <<>>
        /\ (pc = "done" /\ result.ok) => Record.source = "whois"

\* a WHOIS-only call given a customBootstrapData that is not a document
C7_Witness ==
    /\ opts.whoisOnly
    /\ opts.customBootstrapData = Some(DataNull)
    /\ pc = "done"
    /\ result.ok
    /\ Record.source = "whois"

(***************************************************************************)
(* C8.  For every input, options bag and outcome of the network           *)
(* operations, the promise returned by lookup settles once the operations  *)
(* it awaits have settled, and it settles resolved, never rejected: the    *)
(* value is {ok:true, record} without error or {ok:false, error} without   *)
(* record.  Until then the call is pending and awaits an operation, and    *)
(* every operation that settles brings the call nearer its end: Remaining  *)
(* bounds the operations still to be awaited and decreases at each step.   *)
(***************************************************************************)
Remaining ==
    CASE pc = "start" -> 100
      [] pc = "bootstrap" -> 90
      [] pc = "bootstrapRetry" -> 80
      [] pc = "rdap" -> 60 + (Len(bases) - Len(tried))
      [] pc = "rdapRelated" -> 40 + 3 * (MaxLinkHops(opts) - rel.hops) + Len(rel.batch)
      [] pc = "locate" -> 30
      [] pc = "ianaText" -> 20
      [] pc = "whoisFirst" -> 20
      [] pc = "whoisHop" -> 1 + (MaxHops(opts) - walk.hops)
      [] OTHER -> 0

ResolvedShape ==
    /\ result.state = "resolved"
    /\ result.ok => result.record # Undefined /\ result.error = Undefined
    /\ ~result.ok => result.record = Undefined /\ result.error # Undefined

\* the pending call awaits an operation that can settle
AwaitsOperation ==
    IF pc = "whoisHop" THEN walk.phase = "awaiting" /\ walk.next # Undefined
    ELSE ENABLED (LookupStart \/ BootstrapResolve \/ RdapFetchDomain \/ RdapFetchRelated
                    \/ WhoisLocate \/ IanaTextQuery \/ WhoisFirstQuery)

C8_AlwaysResolves ==
    /\ [](IF pc = "done" THEN ResolvedShape ELSE result = NoResult /\ AwaitsOperation)
    /\ [](Remaining >= 0 /\ (Remaining = 0 <=> pc = "done"))
    /\ [][Remaining' < Remaining]_vars

\* an error thrown inside lookup (a rejected WHOIS query) was caught
C8_Witness ==
    /\ pc = "done"
    /\ lastOp = Op("whois", "failed")
    /\ walk.phase = "threw"
    /\ result = Fail(walk.error[1])

(***************************************************************************)
(* C9.  For a syntactically valid domain with a public suffix, well-formed *)
(* options and no caller abort, lookup returns ok:false only if rdapOnly   *)
(* is set and no base produced a document or a 404, or no WHOIS server     *)
(* could be discovered; the transport error of a single attempt, the first *)
(* query to the discovered TLD WHOIS server included, is never the         *)
(* lookup's error.                                                         *)
(***************************************************************************)
WellFormedOptions ==
    \/ opts.customBootstrapData = Undefined
    \/ ~ValidateCustomData(opts.customBootstrapData[1]).threw

C9_FailureOnlyWhenExhausted ==
    ( /\ pc = "done"
      /\ ~result.ok
      /\ isLikelyDomain(domain)
      /\ PublicSuffix(domain) # Undefined
      /\ WellFormedOptions
      /\ ~signalAborted )
    => /\ \/ opts.rdapOnly /\ result.error = Some(ErrRdapOnly)
          \/ result.error \in {Some(ErrNoWhoisServer), Some(ErrNoWhoisServerHint)}
       /\ result.error \notin {Some(e) : e \in WhoisErrors}

(***************************************************************************)
(* C10.  In every ok:true result, record.source is "rdap" exactly when the *)
(* record was built from an RDAP answer (a 2xx document, enriched or not,  *)
(* or a 404 verdict) and "whois" exactly when it was built from WHOIS      *)
(* text; after RDAP was attempted and failed and WHOIS answered, source is *)
(* "whois".                                                                *)
(***************************************************************************)
BuiltFromRdap ==
    \/ lastOp.kind = "rdap domain" /\ lastOp.outcome \in {"ok", "not found"}
    \/ lastOp.kind = "rdap related"

BuiltFromWhois ==
    /\ lastOp.kind = "whois"
    /\ wlog # <<>>
    /\ wlog[1].res # Undefined

C10_SourceReflectsProtocol ==
    (pc = "done" /\ result.ok) =>
        /\ Record.source \in {"rdap", "whois"}
        /\ Record.source = "rdap" <=> BuiltFromRdap
        /\ Record.source = "whois" <=> BuiltFromWhois
        /\ ~(BuiltFromRdap /\ BuiltFromWhois)

\* the bootstrap and a domain fetch were made and failed, then WHOIS answered
C10_Witness ==
    /\ pc = "done"
    /\ result.ok
    /\ {"bootstrap", "http", "whois"} \subseteq issued
    /\ opts.customBootstrapData = Undefined
    /\ Len(wlog) >= 2
    /\ Record.source = "whois"

(***************************************************************************)
(* CoalesceSpec: the part of lookup that builds the record, on its own:    *)
(* from the chain collectWhoisReferralChain returned (index.ts 121-130)    *)
(* or from the RDAP document fetchAndMergeRdapRelated returned (index.ts   *)
(* 69-76), for responses and documents that list nameservers.              *)
(***************************************************************************)
AddrA == "192.0.2.1"
AddrB == "192.0.2.2"
AddrC == "2001:db8::1"

\* nameserver lines of one WHOIS response
NsLineLists ==
    { <<>>,
      <<NsLine(Host(1, FALSE), <<NsPart("v4", AddrA)>>)>>,
      <<NsLine(Host(1, TRUE), <<NsPart("v4", AddrB), NsPart("v6", AddrC)>>),
        NsLine(Host(2, FALSE), <<>>)>>,
      <<NsLine(Host(1, FALSE), <<NsPart("v4", AddrA)>>),
        NsLine(Host(1, FALSE), <<NsPart("v4", AddrA), NsPart("v4", AddrB)>>)>>,
      <<NsLine(Host(2, TRUE), <<NsPart("v4", AddrA), NsPart("v4", AddrA), NsPart("other", "x")>>)>>,
      <<NsLine(Host(2, FALSE), <<NsPart("v6", AddrC)>>)>> }

\* the response of hop i of a chain of n: registered, referring to the next
\* server unless it is the last
ChainResponse(i, n, ns) ==
    WhoisQueryResult(Srv(i - 1),
        [body |-> BodyRegistered,
         refs |-> IF i < n THEN <<RefLine("registrar whois server", Srv(i))>> ELSE <<>>,
         ns |-> ns])

\* the chains the walker returns: 1 to MaxHopsOpt + 1 adopted responses
Chains ==
    UNION { { [i \in 1..n |-> ChainResponse(i, n, f[i])] : f \in [1..n -> NsLineLists] } :
            n \in 1..(MaxHopsOpt + 1) }

\* nameserver arrays of one RDAP document
RdapNsLists ==
    { Undefined,
      Some(<<>>),
      Some(<<RdapNs(Some(Host(1, FALSE)), <<AddrA>>, <<>>)>>),
      Some(<<RdapNs(Some(Host(1, FALSE)), <<AddrA>>, <<>>),
             RdapNs(Some(Host(1, TRUE)), <<AddrB>>, <<AddrC>>)>>),
      Some(<<RdapNs(Undefined, <<AddrA>>, <<>>), RdapNs(Some(Host(2, TRUE)), <<>>, <<>>)>>) }

RdapDocNs(ns) == [RdapDoc(Some(<<"example", "com">>), <<>>, Undefined) EXCEPT !.nameservers = ns]

\* what fetchAndMergeRdapRelated returned: the base document, or the base
\* merged with the document of one related link
MergedDocs ==
    {RdapDocNs(ns) : ns \in RdapNsLists}
    \cup {mergeRdapDocs(RdapDocNs(a), <<RdapDocNs(b)>>) : a, b \in RdapNsLists}

CoalesceInit ==
    /\ domain = <<"example", "com">>
    /\ opts = [DefaultOpts EXCEPT !.maxWhoisReferralHops = Some(MaxHopsOpt)]
    /\ bases = <<>>
    /\ tried = <<>>
    /\ result = NoResult
    /\ signalAborted = FALSE
    /\ lastOp = NoOp
    /\ issued = {}
    /\ wlog = <<>>
    /\ leftOpen = {}
    /\ parked = NoCaller
    /\ \/ /\ pc = "coalesce"
          /\ whoisServer = Some(Srv(0))
          /\ rel = NoRel
          /\ \E chain \in Chains :
                walk = [NoWalk EXCEPT !.fn = "collect", !.phase = "returned",
                                      !.results = chain,
                                      !.current = Some(chain[Len(chain)]),
                                      !.hops = Len(chain) - 1]
       \/ /\ pc = "normalizeRdap"
          /\ whoisServer = Undefined
          /\ walk = NoWalk
          /\ \E doc \in MergedDocs :
                rel = [phase |-> "returned", current |-> doc, visited |-> {}, hops |-> 0,
                       batch |-> <<>>, fetchedDocs |-> <<>>, tried |-> <<>>]

\* index.ts 121-130: the chain is normalized and merged, lookup returns
CoalesceWhois ==
    /\ pc = "coalesce"
    /\ Finish(CoalesceChain(domain, TldOf(domain), WalkerValue(walk)))
    /\ UNCHANGED <<parked, domain, opts, bases, tried, rel, whoisServer, walk,
                   signalAborted, lastOp, issued, wlog, leftOpen>>

\* index.ts 69-76: the merged document is normalized, lookup returns
CoalesceRdap ==
    /\ pc = "normalizeRdap"
    /\ Finish(RdapRecord(rel))
    /\ UNCHANGED <<parked, domain, opts, bases, tried, rel, whoisServer, walk,
                   signalAborted, lastOp, issued, wlog, leftOpen>>

CoalesceNext == CoalesceWhois \/ CoalesceRdap

CoalesceSpec == CoalesceInit /\ [][CoalesceNext]_vars

\* the hosts of a nameserver list are pairwise distinct
DistinctHosts(list) ==
    \A i, j \in 1..Len(list) : list[i].host = list[j].host => i = j

Range(xs) == {xs[i] : i \in 1..Len(xs)}

\* the nameserver entries the source of the record lists, one per line of
\* every response of the chain or per named object of the document
SourceNameservers ==
    IF walk.fn = "collect"
    THEN UNION { Range(OrEmpty(WhoisNameservers(walk.results[i].text))) :
                 i \in 1..Len(walk.results) }
    ELSE Range(OrEmpty(RdapNameservers(rel.current)))

\* the addresses of one kind the entries of a host carry
AddrsOf(entries, host, Field(_)) ==
    UNION { Range(OrEmpty(Field(e))) : e \in {x \in entries : x.host = host} }
Ipv4(e) == e.ipv4
Ipv6(e) == e.ipv6

(***************************************************************************)
(* C11 (CoalesceSpec).  Every record lookup returns, from an RDAP          *)
(* document, a single WHOIS response or a merged chain, has no two         *)
(* nameserver entries with the same lower-cased host, and the entry of a   *)
(* host carries the union of the addresses its source lists for that host. *)
(***************************************************************************)
C11_NameserversDistinct ==
    (pc = "done" /\ result.ok /\ result.record[1].nameservers # Undefined) =>
        LET list == result.record[1].nameservers[1]
        IN  /\ DistinctHosts(list)
            /\ \A i \in 1..Len(list) :
                  /\ ~list[i].host.upper
                  /\ Range(OrEmpty(list[i].ipv4)) = AddrsOf(SourceNameservers, list[i].host, Ipv4)
                  /\ Range(OrEmpty(list[i].ipv6)) = AddrsOf(SourceNameservers, list[i].host, Ipv6)

\* the chain the WHOIS path coalesced
Chain == WalkerValue(walk)
CoalescedWhois == pc = "done" /\ walk.fn = "collect" /\ walk.phase = "returned"

(***************************************************************************)
(* C12 (CoalesceSpec).  Coalescing a chain of one response yields the      *)
(* record normalizeWhois builds from that response, field by field, and    *)
(* merging a returned record with no other records gives the record back.  *)
(***************************************************************************)
C12_SingleChainIsNormalize ==
    CoalescedWhois =>
        /\ Len(Chain) = 1 =>
             /\ result.ok
             /\ \A f \in DOMAIN Record :
                    Record[f] = normalizeWhois(domain, TldOf(domain), Chain[1].text,
                                               Chain[1].serverQueried)[f]
             /\ DOMAIN Record = DOMAIN normalizeWhois(domain, TldOf(domain), Chain[1].text,
                                                      Chain[1].serverQueried)
        /\ result.ok => mergeWhoisRecords(Record, <<>>) = Record

\* a one-response chain whose response lists one host twice has been coalesced
C12_Witness ==
    /\ CoalescedWhois
    /\ Len(Chain) = 1
    /\ result.ok
    /\ ~DistinctHosts(OrEmpty(Record.nameservers))

\* the entries the records of the chain contribute for a host
Contributing(host) == {e \in SourceNameservers : e.host = host}

NoDuplicates(xs) == \A i, j \in 1..Len(xs) : xs[i] = xs[j] => i = j

(***************************************************************************)
(* C13 (CoalesceSpec).  A record merged from several responses has exactly *)
(* one nameserver entry per lower-cased host; when several entries of the  *)
(* responses name the host, the merged entry's ipv4 and ipv6 lists are     *)
(* duplicate-free, and every entry holds exactly the addresses the         *)
(* responses list for its host.                                            *)
(***************************************************************************)
C13_MergedNameserversUnion ==
    (CoalescedWhois /\ Len(Chain) > 1) =>
        LET list == OrEmpty(Record.nameservers)
        IN  /\ DistinctHosts(list)
            /\ {list[i].host : i \in 1..Len(list)} = {e.host : e \in SourceNameservers}
            /\ \A i \in 1..Len(list) :
                  /\ Range(OrEmpty(list[i].ipv4)) = AddrsOf(SourceNameservers, list[i].host, Ipv4)
                  /\ Range(OrEmpty(list[i].ipv6)) = AddrsOf(SourceNameservers, list[i].host, Ipv6)
                  /\ Cardinality(Contributing(list[i].host)) > 1 =>
                        /\ NoDuplicates(OrEmpty(list[i].ipv4))
                        /\ NoDuplicates(OrEmpty(list[i].ipv6))

\* two responses named one host with different glue and were merged
C13_Witness ==
    /\ CoalescedWhois
    /\ Len(Chain) > 1
    /\ \E i \in 1..Len(OrEmpty(Record.nameservers)) :
          LET e == Record.nameservers[1][i]
          IN  /\ Cardinality(Contributing(e.host)) > 1
              /\ Len(OrEmpty(e.ipv4)) > 1
              /\ Len(OrEmpty(e.ipv6)) > 0

(***************************************************************************)
(* LocateSpec: the authoritative WHOIS locator on its own.  lookup has     *)
(* reached the WHOIS path for a domain whose suffix may or may not be in   *)
(* the exception table, with a hints map that may name the suffix, name    *)
(* it with an empty string, or name others; the query of whois.iana.org    *)
(* settles with any of LocateOutcomes.                                     *)
(***************************************************************************)
LocateDomains ==
    { <<"example", "com">>, <<"example", "br">>, <<"example", "com", "br">>,
      <<"example", "xyz">> }

LocateHints ==
    { Undefined,
      Some([t \in {Tld(<<"com">>), Tld(<<"xyz">>)} |-> SrvScheme(2)]),
      Some([t \in {Tld(<<"com">>), Tld(<<"br">>)} |-> EmptyString]),
      Some([t \in {TldUpper(<<"com">>), Tld(<<"com", "br">>)} |-> Srv(2)]) }

\* answers of whois.iana.org naming a server other than the table's
LocateIanaTexts ==
    { [fields |-> <<IanaLine("whois", Some(Srv(1)))>>, url |-> FALSE],
      [fields |-> <<IanaLine("refer", Some(SrvScheme(1))), IanaLine("whois", Some(Srv(3)))>>,
       url |-> FALSE],
      [fields |-> <<IanaLine("refer", Some(SrvScheme(1))), IanaLine("whois", Undefined)>>,
       url |-> TRUE],
      [fields |-> <<IanaLine("whois", Undefined), IanaLine("whois server", Some(Srv(3)))>>,
       url |-> FALSE],
      [fields |-> <<IanaLine("whois", Undefined), IanaLine("refer", Undefined)>>, url |-> TRUE],
      [fields |-> <<>>, url |-> FALSE] }

LocateOutcomes ==
    [ok : {TRUE}, text : LocateIanaTexts]
    \cup {[ok |-> FALSE, error |-> "WHOIS timeout"], [ok |-> FALSE, error |-> "ECONNREFUSED"]}

LocateInit ==
    /\ pc = "locate"
    /\ domain \in LocateDomains
    /\ \E h \in LocateHints : opts = [DefaultOpts EXCEPT !.whoisOnly = TRUE, !.whoisHints = h]
    /\ bases = <<>>
    /\ tried = <<>>
    /\ rel = NoRel
    /\ whoisServer = Undefined
    /\ walk = NoWalk
    /\ result = NoResult
    /\ signalAborted = FALSE
    /\ lastOp = NoOp
    /\ issued = {}
    /\ wlog = <<>>
    /\ leftOpen = {}
    /\ parked = NoCaller

\* index.ts 90: await ianaWhoisServerForTld(tld, opts); lastOp keeps what
\* whois.iana.org answered (nothing when it was not queried) and the
\* server returned
LocateResolve ==
    /\ pc = "locate"
    /\ \E out \in LocateOutcomes :
        LET loc == ianaWhoisServerForTld(TldOf(domain), opts, out)
        IN  /\ issued' = issued \cup (IF loc.queried THEN {"whois"} ELSE {})
            /\ lastOp' = [kind |-> "locate",
                          outcome |-> IF loc.queried THEN Some(out) ELSE Undefined,
                          ret |-> loc.server]
            /\ leftOpen' = leftOpen \cup (IF loc.queried THEN WhoisLeftOpen(out) ELSE {})
            /\ whoisServer' = loc.server
            /\ pc' = IF loc.server = Undefined THEN "ianaText" ELSE "located"
    /\ UNCHANGED <<parked, domain, opts, bases, tried, rel, walk, result, signalAborted, wlog>>

LocateNext == LocateResolve \/ IanaTextQuery

LocateSpec == LocateInit /\ [][LocateNext]_vars

\* the non-blank values of a field of the root-registry answer, in line order
FieldValues(text, key) ==
    SelectSeq(text.fields, LAMBDA l : l.key = key /\ l.value # Undefined)

\* the locator has returned
Located == lastOp.kind = "locate" /\ pc \in {"located", "ianaText"}

LocateKey == TldToLowerCase(TldOf(domain))
HintNamesServer ==
    /\ opts.whoisHints # Undefined
    /\ LocateKey \in DOMAIN opts.whoisHints[1]
    /\ opts.whoisHints[1][LocateKey] # EmptyString
RootAnswerNames(out) ==
    /\ out.ok
    /\ \E k \in {"whois", "refer", "whois server"} : FieldValues(out.text, k) # <<>>
TableNames == LocateKey \in DOMAIN WHOIS_TLD_EXCEPTIONS

(***************************************************************************)
(* C14 (LocateSpec).  The locator returns the first match of: the hint     *)
(* the caller gave for the lower-cased TLD, and then whois.iana.org is not *)
(* queried; else the first non-blank whois, refer or whois server field of *)
(* a successful root-registry answer; else the exception table's entry;    *)
(* else no server.  A failed or blank root-registry answer leaves the      *)
(* table's entry as the result.                                            *)
(***************************************************************************)
C14_LocatorOrder ==
    Located =>
        IF HintNamesServer
        THEN /\ whoisServer = Some(StripScheme(opts.whoisHints[1][LocateKey]))
             /\ "whois" \notin issued
             /\ lastOp.outcome = Undefined
        ELSE /\ lastOp.outcome # Undefined
             /\ LET out == lastOp.outcome[1]
                IN  IF RootAnswerNames(out)
                    THEN whoisServer =
                           Some(StripScheme(
                             IF FieldValues(out.text, "whois") # <<>>
                             THEN FieldValues(out.text, "whois")[1].value[1]
                             ELSE IF FieldValues(out.text, "refer") # <<>>
                             THEN FieldValues(out.text, "refer")[1].value[1]
                             ELSE FieldValues(out.text, "whois server")[1].value[1]))
                    ELSE IF TableNames
                    THEN whoisServer = Some(WHOIS_TLD_EXCEPTIONS[LocateKey])
                    ELSE whoisServer = Undefined

\* whois.iana.org failed or answered with blank fields and the table's
\* entry was returned
C14_Witness ==
    /\ Located
    /\ ~HintNamesServer
    /\ lastOp.outcome # Undefined
    /\ ~RootAnswerNames(lastOp.outcome[1])
    /\ ~lastOp.outcome[1].ok
    /\ TableNames
    /\ whoisServer = Some(WHOIS_TLD_EXCEPTIONS[LocateKey])

\* the value under customBootstrapData is not a BootstrapData
CustomDataInvalid ==
    /\ opts.customBootstrapData # Undefined
    /\ \/ opts.customBootstrapData[1].type # "object"
       \/ opts.customBootstrapData[1].services = Undefined
       \/ \E i \in 1..Len(opts.customBootstrapData[1].services[1]) :
             ~opts.customBootstrapData[1].services[1][i].wellFormed

StructuralErrors ==
    { "Invalid customBootstrapData: expected an object",
      "Invalid customBootstrapData: missing or invalid services array",
      "Invalid customBootstrapData: services[i] must be a tuple" }

\* the operations that reach the network
NetworkOps == {"http", "whois", DEFAULT_BOOTSTRAP_URL, "https://mirror.example/dns.json"}

(***************************************************************************)
(* C15 (Spec).  When the options hold a customBootstrapData that is not an *)
(* object with a services array of [tld-list, url-list] pairs, the         *)
(* bootstrap resolver throws a structural error and fetches nothing, and a *)
(* lookup that is not whoisOnly and reaches the resolver ends with         *)
(* ok:false carrying that error, without any WHOIS or HTTP operation.      *)
(***************************************************************************)
C15_InvalidCustomDataIsFatal ==
    (CustomDataInvalid /\ ~opts.whoisOnly) =>
        /\ issued \cap NetworkOps = {}
        /\ pc \in {"start", "bootstrap", "done"}
        /\ "bootstrap" \in issued =>
              /\ lastOp.kind = "bootstrap"
              /\ lastOp.outcome = "custom"
              /\ lastOp.ret = "threw"
              /\ pc = "done"
              /\ result.state = "resolved"
              /\ ~result.ok
              /\ result.error # Undefined
              /\ result.error[1] \in StructuralErrors
        /\ (pc = "done" /\ isLikelyDomain(domain) /\ PublicSuffix(domain) # Undefined) =>
              "bootstrap" \in issued

\* a lookup given an array under customBootstrapData has ended with the
\* structural error about the services array
C15_Witness ==
    /\ opts.customBootstrapData = Some(DataArray)
    /\ ~opts.whoisOnly
    /\ ~opts.rdapOnly
    /\ pc = "done"
    /\ ~result.ok
    /\ result.error = Some("Invalid customBootstrapData: missing or invalid services array")
    /\ "bootstrap" \in issued

\* the value under customBootstrapData is a BootstrapData
CustomDataValid == opts.customBootstrapData # Undefined /\ ~CustomDataInvalid

(***************************************************************************)
(* C16 (Spec).  When a valid customBootstrapData document is supplied,     *)
(* bootstrap resolution fetches nothing: neither the customBootstrapUrl    *)
(* nor the default IANA URL is requested, and no HTTP request has been     *)
(* made when the resolver returns.  No step changes the supplied document. *)
(***************************************************************************)
C16_CustomDataNoFetch ==
    /\ [](CustomDataValid =>
            /\ DEFAULT_BOOTSTRAP_URL \notin issued
            /\ \A u \in {opts.customBootstrapUrl} : u # Undefined => u[1] \notin issued
            /\ lastOp.kind = "bootstrap" =>
                  /\ lastOp.outcome = "custom"
                  /\ "http" \notin issued)
    /\ [][opts'.customBootstrapData = opts.customBootstrapData]_vars

\* the resolver returned bases from a supplied document while a
\* customBootstrapUrl was given too
C16_Witness ==
    /\ CustomDataValid
    /\ opts.customBootstrapUrl # Undefined
    /\ lastOp.kind = "bootstrap"
    /\ lastOp.ret = "bases"
    /\ "bootstrap" \in issued

(***************************************************************************)
(* RelSpec: the RDAP link follower on its own.  lookup has fetched a       *)
(* domain document with up to MaxLinks related links (one of them may be   *)
(* listed twice) and calls fetchAndMergeRdapRelated with any rdapFollowLinks *)
(* and maxRdapLinkHops; every link fetch settles with any of              *)
(* RelatedFetchOutcomes.                                                   *)
(***************************************************************************)
MaxLinks == 3

LinkUrl(i) == Url(100 + i, FALSE)

LinkBaseDocs ==
    {RdapDoc(Undefined, [i \in 1..n |-> LinkUrl(i)], Some(Srv(0))) : n \in 0..MaxLinks}
    \cup {RdapDoc(Some(<<"example", "com">>), <<LinkUrl(1), LinkUrl(1)>>, Undefined)}

LinkBags ==
    [whoisOnly : {FALSE}, rdapOnly : {FALSE},
     followWhoisReferral : {Undefined}, maxWhoisReferralHops : {Undefined},
     rdapFollowLinks : FollowChoices, maxRdapLinkHops : HopChoices,
     customBootstrapData : {Undefined}, customBootstrapUrl : {Undefined},
     whoisHints : {Undefined}]

RelInit ==
    /\ pc = "relatedCall"
    /\ domain = <<"example", "com">>
    /\ opts \in LinkBags
    /\ bases = <<Url(1, TRUE)>>
    /\ tried = <<Url(1, TRUE)>>
    /\ \E doc \in LinkBaseDocs : rel = [phase |-> "called", current |-> doc]
    /\ whoisServer = Undefined
    /\ walk = NoWalk
    /\ result = NoResult
    /\ signalAborted = FALSE
    /\ lastOp = Op("rdap domain", "ok")
    /\ issued = {"bootstrap", "http", DEFAULT_BOOTSTRAP_URL}
    /\ wlog = <<>>
    /\ leftOpen = {}
    /\ parked = NoCaller

\* index.ts 64-76: fetchAndMergeRdapRelated is called with the document
\* fetched and runs up to its first await or its return; lastOp keeps the
\* document it was called with
RelCall ==
    /\ pc = "relatedCall"
    /\ LET r == RelStart(rel.current, opts)
       IN  /\ rel' = r
           /\ lastOp' = [kind |-> "related call", outcome |-> rel.current, ret |-> "none"]
           /\ IF r.phase = "returned" THEN Finish(RdapRecord(r))
              ELSE pc' = "rdapRelated" /\ result' = result
    /\ UNCHANGED <<parked, domain, opts, bases, tried, whoisServer, walk, signalAborted, issued,
                   wlog, leftOpen>>

RelNext == RelCall \/ RdapFetchRelated

RelSpec == RelInit /\ [][RelNext]_vars

\* the related-link fetches the follower has started: each one adds its
\* URL, never fetched before, to `visited`
LinkFetches == IF rel.phase = "called" THEN 0 ELSE Cardinality(rel.visited)

LinkFollowingOff ==
    opts.rdapFollowLinks = Some(FALSE)
    \/ (opts.maxRdapLinkHops # Undefined /\ opts.maxRdapLinkHops[1] <= 0)

(***************************************************************************)
(* C17 (RelSpec).  fetchAndMergeRdapRelated starts at most                 *)
(* maxRdapLinkHops (default 2) related-link fetches whatever the base      *)
(* document links to; with rdapFollowLinks false or maxRdapLinkHops 0 it   *)
(* fetches nothing and returns the base document unchanged with an empty   *)
(* server list.                                                            *)
(***************************************************************************)
C17_AtMostMaxLinkFetches ==
    /\ LinkFetches <= Max(0, OrElse(opts.maxRdapLinkHops, DefaultMaxRdapLinkHops))
    /\ (LinkFollowingOff /\ pc # "relatedCall") =>
          /\ pc = "done"
          /\ rel.phase = "returned"
          /\ rel.visited = {}
          /\ rel.tried = <<>>
          /\ rel.current = lastOp.outcome

(***************************************************************************)
(* C18 (Spec).  When the timeout race of a network operation expires       *)
(* first, the operation is abandoned together with what it opened: the     *)
(* WHOIS socket is destroyed, the HTTP request aborted.  Hence no          *)
(* timed-out operation is left open, neither when the lookup starts its    *)
(* next operation nor when it returns.                                     *)
(***************************************************************************)
C18_TimedOutOperationClosed == leftOpen = {}

(***************************************************************************)
(* ConcurrentSpec: two calls of lookup in one process.  Both are WHOIS-    *)
(* only calls for example.com with a hint for com; each await of a call    *)
(* settles on its own network event, and the events of the two calls       *)
(* arrive in any order.  The variables hold the locals of the call whose   *)
(* event is delivered next, `parked` those of the other call.              *)
(***************************************************************************)
ConcurrentBags ==
    [whoisOnly : {TRUE}, rdapOnly : {FALSE},
     followWhoisReferral : {Undefined, Some(FALSE)},
     maxWhoisReferralHops : {Undefined, Some(1)},
     rdapFollowLinks : {Undefined}, maxRdapLinkHops : {Undefined},
     customBootstrapData : {Undefined}, customBootstrapUrl : {Undefined},
     whoisHints : {Some([t \in {Tld(<<"com">>)} |-> SrvScheme(0)])}]

\* what a WHOIS query of either call settles with
ConcurrentOutcomes ==
    [ok : {TRUE},
     text : [body : {BodyRegistered, BodyNoMatch},
             refs : {<<>>, <<RefLine("registrar whois server", SrvUpper(0))>>,
                     <<RefLine("registrar whois server", Srv(1))>>,
                     <<RefLine("registrar whois server", Srv(2))>>}]]
    \cup {[ok |-> FALSE, error |-> "WHOIS timeout"]}

\* the locals of a call that has not run yet
NewCall(d, o) ==
    [pc |-> "start", domain |-> d, opts |-> o, bases |-> <<>>, tried |-> <<>>,
     rel |-> NoRel, whoisServer |-> Undefined, walk |-> NoWalk, result |-> NoResult,
     signalAborted |-> FALSE, lastOp |-> NoOp, issued |-> {}, wlog |-> <<>>,
     leftOpen |-> {}]

\* the locals of the call the variables hold
ThisCall ==
    [pc |-> pc, domain |-> domain, opts |-> opts, bases |-> bases, tried |-> tried,
     rel |-> rel, whoisServer |-> whoisServer, walk |-> walk, result |-> result,
     signalAborted |-> signalAborted, lastOp |-> lastOp, issued |-> issued,
     wlog |-> wlog, leftOpen |-> leftOpen]

ConcurrentInit ==
    /\ pc = "start"
    /\ domain = <<"example", "com">>
    /\ opts \in ConcurrentBags
    /\ bases = <<>>
    /\ tried = <<>>
    /\ rel = NoRel
    /\ whoisServer = Undefined
    /\ walk = NoWalk
    /\ result = NoResult
    /\ signalAborted = FALSE
    /\ lastOp = NoOp
    /\ issued = {}
    /\ wlog = <<>>
    /\ leftOpen = {}
    /\ \E o \in ConcurrentBags : parked = NewCall(<<"example", "com">>, o)

\* the next event belongs to the other call: it resumes where it awaits
Switch ==
    /\ parked.pc \notin {"none", "done"}
    /\ parked' = ThisCall
    /\ pc' = parked.pc
    /\ domain' = parked.domain
    /\ opts' = parked.opts
    /\ bases' = parked.bases
    /\ tried' = parked.tried
    /\ rel' = parked.rel
    /\ whoisServer' = parked.whoisServer
    /\ walk' = parked.walk
    /\ result' = parked.result
    /\ signalAborted' = parked.signalAborted
    /\ lastOp' = parked.lastOp
    /\ issued' = parked.issued
    /\ wlog' = parked.wlog
    /\ leftOpen' = parked.leftOpen

ConcurrentNext ==
    \/ LookupStart
    \/ WhoisLocate
    \/ WhoisFirstQueryOver(ConcurrentOutcomes)
    \/ WhoisHopQueryOver(ConcurrentOutcomes)
    \/ Switch

ConcurrentSpec == ConcurrentInit /\ [][ConcurrentNext]_vars

\* the response a logged query settled with
OutcomeOf(q) ==
    IF q.res # Undefined THEN [ok |-> TRUE, text |-> q.res[1]]
    ELSE [ok |-> FALSE, error |-> "WHOIS timeout"]

\* the walker of a call that runs alone and receives the responses of `log`
AloneWalker(server, o, log) ==
    LET W[i \in 1..Len(log)] ==
            IF i = 1 THEN WalkerFirst("collect", server, OutcomeOf(log[1]), o)
            ELSE WalkerHop(W[i - 1], OutcomeOf(log[i]), o)
    IN  W[Len(log)]

\* what lookup returns when it runs alone and receives the responses of `log`
AloneResult(d, o, log) ==
    LET server == normalizeServer(o.whoisHints[1][TldOf(d)])
        w == AloneWalker(server, o, log)
    IN  IF w.phase = "threw" THEN Caught(w.error[1])
        ELSE CoalesceChain(d, TldOf(d), WalkerValue(w))

\* a call that has returned returned what it returns alone on the same
\* responses, and queried the servers it queries alone
AsAlone(c) ==
    c.pc = "done" =>
        /\ c.wlog # <<>>
        /\ c.result = AloneResult(c.domain, c.opts, c.wlog)
        /\ c.walk = AloneWalker(c.whoisServer[1], c.opts, c.wlog)
        /\ \A i \in 2..Len(c.wlog) :
              AloneWalker(c.whoisServer[1], c.opts, SubSeq(c.wlog, 1, i - 1)).next
                 = Some(c.wlog[i].server)

PslSuffixes == IcannSuffixes \cup {<<"uk", "com">>}

\* lib/domain.ts 19-37 getDomainParts: the longest listed suffix (else the
\* last label) and its last label
getDomainParts(d) ==
    LET ns == {n \in 1..Len(d) : Suffix(d, n) \in PslSuffixes}
        ps == IF ns = {} THEN Tld(Suffix(d, 1))
              ELSE Tld(Suffix(d, CHOOSE n \in ns : \A m \in ns : m <= n))
    IN  [publicSuffix |-> ps, tld |-> LastLabel(ps)]

LookupDomainDomains ==
    { <<"example", "com">>, <<"example", "uk", "com">>, <<"example", "com", "br">> }

BodyError == <<"error", ":", "rate", "limit", "exceeded">>
BodyNotFoundError == <<"error", ":", "domain", "not", "found">>

LookupDomainTexts ==
    [body : {BodyRegistered, BodyNoMatch, BodyError, BodyNotFoundError},
     refs : {<<>>, <<RefLine("registrar whois server", SrvUpper(0))>>,
             <<RefLine("registrar whois server", Srv(1))>>}]
    \cup {[body |-> <<>>, refs |-> <<>>]}

LookupDomainOutcomes ==
    [ok : {TRUE}, text : LookupDomainTexts] \cup {[ok |-> FALSE, error |-> "WHOIS timeout"]}

LookupDomainInit ==
    /\ pc = "tldQuery"
    /\ domain \in LookupDomainDomains
    /\ \E f \in FollowChoices :
          opts = [DefaultOpts EXCEPT !.whoisOnly = TRUE, !.followWhoisReferral = f]
    /\ bases = <<>>
    /\ tried = <<>>
    /\ rel = NoRel
    /\ whoisServer = Some(Srv(0))
    /\ walk = [NoWalk EXCEPT !.fn = "lookupDomain"]
    /\ result = NoResult
    /\ signalAborted = FALSE
    /\ lastOp = Op("locate", "ok")
    /\ issued = {"whois"}
    /\ wlog = <<>>
    /\ leftOpen = {}
    /\ parked = NoCaller

\* /no match|not found/i.test(res.text)
SaysNoMatch(text) ==
    Contains(text.body, <<"no", "match">>) \/ Contains(text.body, <<"not", "found">>)

\* alt.text && !/error/i.test(alt.text)
UsableText(text) == text # [body |-> <<>>, refs |-> <<>>] /\ ~Contains(text.body, <<"error">>)

\* index.ts 254-258: the exception table is tried
TriesException(res) ==
    /\ IsMultiLabel(getDomainParts(domain).publicSuffix)
    /\ SaysNoMatch(res.text)
    /\ ~FollowDisabled(opts)
    /\ TldToLowerCase(getDomainParts(domain).publicSuffix) \in DOMAIN WHOIS_TLD_EXCEPTIONS

\* index.ts 277-284: the record of lookupDomain
LookupDomainRecord(res) ==
    Ok(normalizeWhois(domain, getDomainParts(domain).tld, res.text, res.serverQueried))

\* index.ts 253-284, from the end of the referral step to the next await
\* or the return
AfterReferralStep(res) ==
    /\ walk' = [walk EXCEPT !.current = Some(res), !.next = Undefined]
    /\ IF TriesException(res) THEN pc' = "exceptionQuery" /\ result' = result
       ELSE Finish(LookupDomainRecord(res))

\* index.ts 242: await whoisQuery(whoisServer, domain, opts), then 243-252
\* up to the next await
LookupDomainTldQuery ==
    /\ pc = "tldQuery"
    /\ \E out \in LookupDomainOutcomes :
        /\ wlog' = Append(wlog, Queried(whoisServer[1], out))
        /\ leftOpen' = leftOpen \cup WhoisLeftOpen(out)
        /\ lastOp' = Op("whois", IF out.ok THEN "ok" ELSE "failed")
        /\ IF ~out.ok THEN Finish(Caught(out.error)) /\ walk' = walk
           ELSE LET res == WhoisQueryResult(whoisServer[1], out.text)
                    referral == extractWhoisReferral(res.text)
                IN  IF /\ ~FollowDisabled(opts)
                       /\ referral # Undefined
                       /\ ToLowerCase(referral[1]) # ToLowerCase(whoisServer[1])
                    THEN /\ walk' = [walk EXCEPT !.current = Some(res), !.next = referral]
                         /\ pc' = "referralQuery"
                         /\ result' = result
                    ELSE AfterReferralStep(res)
    /\ UNCHANGED <<parked, domain, opts, bases, tried, rel, whoisServer, signalAborted, issued>>

\* index.ts 246-250: await whoisQuery(referral, domain, opts); a failure
\* keeps the TLD server's response
LookupDomainReferralQuery ==
    /\ pc = "referralQuery"
    /\ \E out \in LookupDomainOutcomes :
        /\ wlog' = Append(wlog, Queried(walk.next[1], out))
        /\ leftOpen' = leftOpen \cup WhoisLeftOpen(out)
        /\ lastOp' = Op("whois", IF out.ok THEN "ok" ELSE "failed")
        /\ AfterReferralStep(IF out.ok THEN WhoisQueryResult(walk.next[1], out.text)
                             ELSE walk.current[1])
    /\ UNCHANGED <<parked, domain, opts, bases, tried, rel, whoisServer, signalAborted, issued>>

\* index.ts 265-274: await whoisQuery(server, domain, opts) for the
\* exception server; its text is adopted when non-empty and free of "error"
LookupDomainExceptionQuery ==
    /\ pc = "exceptionQuery"
    /\ \E out \in LookupDomainOutcomes :
        LET server == WHOIS_TLD_EXCEPTIONS[TldToLowerCase(getDomainParts(domain).publicSuffix)]
            res == IF out.ok /\ UsableText(out.text)
                   THEN WhoisQueryResult(server, out.text) ELSE walk.current[1]
        IN  /\ wlog' = Append(wlog, Queried(server, out))
            /\ leftOpen' = leftOpen \cup WhoisLeftOpen(out)
            /\ lastOp' = Op("whois", IF out.ok THEN "ok" ELSE "failed")
            /\ walk' = [walk EXCEPT !.current = Some(res)]
            /\ Finish(LookupDomainRecord(res))
    /\ UNCHANGED <<parked, domain, opts, bases, tried, rel, whoisServer, signalAborted, issued>>

LookupDomainNext ==
    \/ LookupDomainTldQuery
    \/ LookupDomainReferralQuery
    \/ LookupDomainExceptionQuery

LookupDomainSpec == LookupDomainInit /\ [][LookupDomainNext]_vars

\* the suffix is multi-label and the exception table has an entry for it
ExceptionListed ==
    /\ Len(getDomainParts(domain).publicSuffix.labels) > 1
    /\ getDomainParts(domain).publicSuffix \in DOMAIN WHOIS_TLD_EXCEPTIONS

(***************************************************************************)
(* C20 (LookupDomainSpec).  When the located TLD server answered "no       *)
(* match" or "not found" for a domain whose multi-label public suffix has  *)
(* an entry in the exception table, the lookup has queried that entry's    *)
(* server last before it returns, and when that server answered with a     *)
(* non-empty text free of "error" the record is normalized from that       *)
(* answer, whoisServer being the exception server.                         *)
(***************************************************************************)
C20_ExceptionServerLastResort ==
    (/\ pc = "done"
     /\ wlog # <<>>
     /\ wlog[1].res # Undefined
     /\ SaysNoMatch(wlog[1].res[1])
     /\ ExceptionListed) =>
        LET server == WHOIS_TLD_EXCEPTIONS[getDomainParts(domain).publicSuffix]
            last == wlog[Len(wlog)]
        IN  /\ Len(wlog) > 1
            /\ last.server = server
            /\ (last.res # Undefined /\ UsableText(last.res[1])) =>
                  /\ result.ok
                  /\ result.record[1] =
                        normalizeWhois(domain, getDomainParts(domain).tld, last.res[1], server)
                  /\ result.record[1].whoisServer = Some(server)

\* the last label of the public suffix of the domain looked up
RegistryLabel == [TldOf(domain) EXCEPT !.labels = Suffix(TldOf(domain).labels, 1)]

(***************************************************************************)
(* C21 (Spec).  The first resolution of the base URLs is followed by a     *)
(* second one exactly when it returned no base URL and the public suffix   *)
(* is multi-label; nothing else leads to a second resolution.  The second  *)
(* resolution is made for the suffix's last label, and the bases it        *)
(* returns are the ones lookup goes on with.                               *)
(***************************************************************************)
C21_RegistryLabelRetry ==
    [][ /\ (pc = "bootstrap") =>
              (pc' = "bootstrapRetry"
                 <=> (lastOp'.ret = "no base" /\ Len(TldOf(domain).labels) > 1))
        /\ (pc' = "bootstrapRetry") => (pc = "bootstrap")
        /\ (pc = "bootstrapRetry" /\ lastOp'.ret = "bases") =>
              /\ pc' = "rdap"
              /\ \E out \in BootFetchOutcomes :
                    getRdapBaseUrlsForTld(RegistryLabel, opts, out) = Returned(bases')
        /\ (pc = "bootstrapRetry" /\ lastOp'.ret = "no base") =>
              (bases' = <<>> /\ pc' \in {"locate", "done"})
      ]_vars

\* example.com.br with a document that lists br and not com.br: the bases
\* come from the second resolution
C21_Witness ==
    /\ pc = "rdap"
    /\ domain = <<"example", "com", "br">>
    /\ opts.customBootstrapData = Some(BootDoc(MaxBases, FALSE))
    /\ MatchingBases(BootDoc(MaxBases, FALSE), TldOf(domain)) = <<>>
    /\ bases # <<>>
    /\ bases = MatchingBases(BootDoc(MaxBases, FALSE), RegistryLabel)

(***************************************************************************)
(* BasesSpec: one call of getRdapBaseUrlsForTld(tld, {customBootstrapData}) *)
(* for every document of up to MaxServices services and every queried TLD. *)
(* `domain` holds the tld argument and `bases` the list returned.          *)
(***************************************************************************)
MaxServices == 2

\* TLD lists of a services entry: one TLD, two TLDs of which the first is
\* written in upper case, a multi-label TLD next to another
ServiceTlds ==
    { <<Tld(<<"com">>)>>,
      <<TldUpper(<<"com">>), Tld(<<"br">>)>>,
      <<Tld(<<"com", "br">>), Tld(<<"org", "br">>)>> }

\* URL lists of a services entry: with and without the trailing slash, the
\* same URL written both ways
ServiceUrls ==
    { <<Url(1, FALSE)>>,
      <<Url(1, FALSE), Url(1, TRUE)>>,
      <<Url(2, TRUE), Url(1, FALSE)>> }

Services == {Service(t, u) : t \in ServiceTlds, u \in ServiceUrls}

RECURSIVE ServiceLists(_)
ServiceLists(n) ==
    IF n = 0 THEN {<<>>}
    ELSE LET shorter == ServiceLists(n - 1)
         IN  shorter \cup {Append(l, s) : l \in shorter, s \in Services}

ServiceDocs == {[type |-> "object", services |-> Some(l)] : l \in ServiceLists(MaxServices)}

QueriedTlds ==
    { Tld(<<"com">>), TldUpper(<<"com">>), Tld(<<"br">>), Tld(<<"com", "br">>),
      TldUpper(<<"org", "br">>), Tld(<<"org">>) }

BasesInit ==
    /\ pc = "resolve"
    /\ domain \in QueriedTlds
    /\ \E doc \in ServiceDocs : opts = [DefaultOpts EXCEPT !.customBootstrapData = Some(doc)]
    /\ bases = <<>>
    /\ tried = <<>>
    /\ rel = NoRel
    /\ whoisServer = Undefined
    /\ walk = NoWalk
    /\ result = NoResult
    /\ signalAborted = FALSE
    /\ lastOp = NoOp
    /\ issued = {}
    /\ wlog = <<>>
    /\ leftOpen = {}
    /\ parked = NoCaller

\* bootstrap.ts 20-94: getRdapBaseUrlsForTld with the caller's document
BasesResolve ==
    /\ pc = "resolve"
    /\ LET got == getRdapBaseUrlsForTld(domain, opts, [kind |-> "ok", data |-> DataNull])
       IN  /\ bases' = got.value
           /\ lastOp' = BootOp("custom", got)
           /\ pc' = "done"
    /\ issued' = issued \cup {"bootstrap"}
    /\ UNCHANGED <<parked, domain, opts, tried, rel, whoisServer, walk, result,
                   signalAborted, wlog, leftOpen>>

BasesSpec == BasesInit /\ [][BasesResolve]_vars

\* the services of the document resolved against
DocServices == opts.customBootstrapData[1].services[1]
\* the positions <<entry, url>> of the URLs whose entry lists the queried TLD
ListedAt ==
    UNION { {<<i, j>> : j \in 1..Len(DocServices[i].urls)} :
            i \in {n \in 1..Len(DocServices) :
                     \E k \in 1..Len(DocServices[n].tlds) :
                         DocServices[n].tlds[k].labels = domain.labels} }
\* the URL at a position, ending with "/"
SlashedAt(p) == [id |-> DocServices[p[1]].urls[p[2]].id, slash |-> TRUE]
ComesBefore(p, q) == p[1] < q[1] \/ (p[1] = q[1] /\ p[2] < q[2])
FirstAt(u) ==
    CHOOSE p \in ListedAt : SlashedAt(p) = u /\ \A q \in ListedAt : SlashedAt(q) = u => ~ComesBefore(q, p)

(***************************************************************************)
(* C22 (BasesSpec).  The list getRdapBaseUrlsForTld returns holds exactly  *)
(* the URLs of the services entries whose TLD list contains the queried    *)
(* TLD whatever the case of either (multi-label TLDs included), each       *)
(* ending with "/", none twice, in the order of their first occurrence in  *)
(* the document; it is empty when no entry lists the TLD.                  *)
(***************************************************************************)
C22_BasesOfMatchingServices ==
    pc = "done" =>
        /\ lastOp.ret # "threw"
        /\ {bases[i] : i \in 1..Len(bases)} = {SlashedAt(p) : p \in ListedAt}
        /\ \A i \in 1..Len(bases) : bases[i].slash
        /\ \A i, j \in 1..Len(bases) : i < j =>
              /\ bases[i] # bases[j]
              /\ ComesBefore(FirstAt(bases[i]), FirstAt(bases[j]))
        /\ (ListedAt = {}) => (bases = <<>>)

\* COM resolved against two entries, the first listing com and the second
\* COM and br, whose three URLs are two different ones
C22_Witness ==
    /\ pc = "done"
    /\ domain = TldUpper(<<"com">>)
    /\ DocServices = << Service(<<Tld(<<"com">>)>>, <<Url(2, TRUE), Url(1, FALSE)>>),
                        Service(<<TldUpper(<<"com">>), Tld(<<"br">>)>>, <<Url(1, FALSE), Url(1, TRUE)>>) >>
    /\ bases = <<Url(2, TRUE), Url(1, TRUE)>>

(***************************************************************************)
(* HelperSpec: isAvailable(domain, opts) or isRegistered(domain, opts),    *)
(* that is lookup followed by the helper's own step.  `lastOp` holds the   *)
(* helper called and what its promise settled with.                        *)
(***************************************************************************)
Resolves(value) == [settled |-> "resolved", value |-> value, error |-> ""]
Rejects(msg) == [settled |-> "rejected", value |-> FALSE, error |-> msg]

\* res.error || "Lookup failed"
ErrorOrLookupFailed(res) ==
    IF res.error = Undefined \/ res.error = Some("") THEN "Lookup failed" ELSE res.error[1]

\* a failed lookup read as "not available"
isAvailableResolvesOnError(res) ==
    IF ~res.ok \/ res.record = Undefined THEN Resolves(FALSE)
    ELSE Resolves(res.record[1].isRegistered = FALSE)

\* index.ts 137-148: isAvailable after `await lookup(domain, opts)`
isAvailable(res) ==
    IF ~res.ok \/ res.record = Undefined THEN Rejects(ErrorOrLookupFailed(res))
    ELSE Resolves(res.record[1].isRegistered = FALSE)

\* index.ts 150-161: isRegistered after `await lookup(domain, opts)`
isRegistered(res) ==
    IF ~res.ok \/ res.record = Undefined THEN Rejects(ErrorOrLookupFailed(res))
    ELSE Resolves(res.record[1].isRegistered = TRUE)

HelperNames == {"isAvailable", "isRegistered"}

\* index.ts 144-147, 157-160: the helper settles once its lookup has
HelperSettle ==
    /\ pc = "done"
    /\ \E fn \in HelperNames :
          lastOp' = [kind |-> fn, outcome |-> "settled", ret |-> "none",
                     promise |-> IF fn = "isAvailable" THEN isAvailable(result)
                                 ELSE isRegistered(result)]
    /\ pc' = "settled"
    /\ UNCHANGED <<parked, domain, opts, bases, tried, rel, whoisServer, walk, result,
                   signalAborted, issued, wlog, leftOpen>>

HelperNext == Next \/ HelperSettle

HelperSpec == Init /\ [][HelperNext]_vars

C23_WitnessRejected ==
    /\ pc = "settled"
    /\ lastOp.kind = "isRegistered"
    /\ ~result.ok
    /\ lastOp.promise = Rejects(ErrRdapOnly)

(***************************************************************************)
(* PhraseSpec: normalizeWhois applied to one WHOIS response whose text     *)
(* holds one of the availability phrases of normalize.test.ts 190-219,     *)
(* alone or among the lines of a registered domain's response.  A text is  *)
(* its sequence of lower-cased words, ":" being a token of its own.        *)
(***************************************************************************)
AvailabilityPhrases ==
    { <<"domain", "not", "found">>,
      <<"no", "information", "available">>,
      <<"no", "se", "encuentra", "registrado">>,
      <<"object_not_found">>,
      <<"is", "free">>,
      <<"no", "data", "was", "found">>,
      <<"no", "entries", "found">>,
      <<"no", "data", "found">>,
      <<"no", "information", "was", "found">>,
      <<"no", "match">>,
      <<"no", "object", "found">>,
      <<"not", "been", "registered">>,
      <<"does", "not", "exist">>,
      <<"not", "found">>,
      <<"status", ":", "free">>,
      <<"status", ":", "available">>,
      <<"unassignable">> }

\* what precedes and follows the phrase in the text
PhraseContexts == { <<>>, BodyRegistered, <<"last", "update", "of", "whois", "database">> }

PhraseTexts ==
    { [body |-> pre \o phrase \o post, refs |-> <<>>, ns |-> ns] :
        phrase \in AvailabilityPhrases, pre \in PhraseContexts, post \in PhraseContexts,
        ns \in { <<>>, <<NsLine(Host(1, FALSE), <<>>)>> } }

PhraseInit ==
    /\ pc = "coalesce"
    /\ domain = <<"example", "com">>
    /\ opts = DefaultOpts
    /\ bases = <<>>
    /\ tried = <<>>
    /\ rel = NoRel
    /\ whoisServer = Some(Srv(0))
    /\ \E text \in PhraseTexts :
          walk = [NoWalk EXCEPT !.fn = "collect", !.phase = "returned",
                                !.results = <<WhoisQueryResult(Srv(0), text)>>,
                                !.current = Some(WhoisQueryResult(Srv(0), text))]
    /\ result = NoResult
    /\ signalAborted = FALSE
    /\ lastOp = NoOp
    /\ issued = {}
    /\ wlog = <<>>
    /\ leftOpen = {}
    /\ parked = NoCaller

PhraseSpec == PhraseInit /\ [][CoalesceWhois]_vars

\* the text normalized
PhraseText == walk.results[1].text

(***************************************************************************)
(* C24 (PhraseSpec).  For a WHOIS text that contains one of the listed     *)
(* availability phrases, isAvailableByWhois is true and the record         *)
(* normalizeWhois builds has isRegistered = false, whatever else the text  *)
(* holds.                                                                  *)
(***************************************************************************)
C24_ListedPhrasesMeanAvailable ==
    (pc = "done" /\ \E phrase \in AvailabilityPhrases : Contains(PhraseText.body, phrase)) =>
        /\ isAvailableByWhois(PhraseText)
        /\ result.ok
        /\ result.record[1].isRegistered = FALSE

\* the last query of the history and the response it brought
LastQuery == wlog[Len(wlog)]
\* the response the walker reads as available (lib/domain.ts phrases)
LooksAvailable(text) == isWhoisAvailable(text)

(***************************************************************************)
(* C25 (WalkSpec).  In both walkers, when a referred server answers: if    *)
(* the adopted response does not look available and the new one does, the  *)
(* new one is neither adopted nor appended and the walk is over with the   *)
(* adopted response as its result; otherwise the new response is adopted   *)
(* (and appended to the chain).  No returned chain holds a response that   *)
(* does not look available immediately followed by one that does.          *)
(***************************************************************************)
C25_NoDowngradeAdopted ==
    [][ /\ (pc = "walkHop" /\ LastQuery'.res # Undefined) =>
              LET res == WhoisQueryResult(walk.next[1], LastQuery'.res[1])
              IN  IF ~LooksAvailable(walk.current[1].text) /\ LooksAvailable(res.text)
                  THEN /\ walk'.current = walk.current
                       /\ walk'.results = walk.results
                       /\ pc' = "walkDone"
                       /\ walk'.phase = "returned"
                  ELSE /\ walk'.current = Some(res)
                       /\ walk'.results = IF walk.fn = "collect"
                                          THEN Append(walk.results, res) ELSE walk.results
        /\ \A i \in 1..(Len(walk'.results) - 1) :
              ~(/\ ~LooksAvailable(walk'.results[i].text)
                /\ LooksAvailable(walk'.results[i + 1].text))
      ]_vars

\* the chain walker kept only the first response after the referred server
\* answered "no match" to a registered domain
C25_Witness ==
    /\ pc = "walkDone"
    /\ walk.fn = "collect"
    /\ Len(wlog) = 2
    /\ wlog[2].res # Undefined
    /\ ~LooksAvailable(wlog[1].res[1])
    /\ LooksAvailable(wlog[2].res[1])
    /\ Len(walk.results) = 1
    /\ walk.results[1].text = wlog[1].res[1]

\* a server string without its leading whois://, in lower case
BareHost(server) == [scheme |-> FALSE, upper |-> FALSE, name |-> server.name]
\* the hosts the walk has queried
QueriedHosts == {BareHost(wlog[i].server) : i \in 1..Len(wlog)}

(***************************************************************************)
(* C26 (WalkSpec).  No two queries of a walk go to servers that are equal  *)
(* once a leading whois:// is stripped and the case is lowered.  The only  *)
(* server a walk queries next is the referral extracted from the adopted   *)
(* response, and only when its host has not been queried; when that        *)
(* referral names a host already queried, the current server included,     *)
(* the walk is over and its result is the adopted response.                *)
(***************************************************************************)
C26_NoHostQueriedTwice ==
    /\ \A i, j \in 1..Len(wlog) :
          i < j => BareHost(wlog[i].server) # BareHost(wlog[j].server)
    /\ pc = "walkHop" =>
          /\ walk.next = extractWhoisReferral(walk.current[1].text)
          /\ BareHost(walk.next[1]) \notin QueriedHosts
    /\ (/\ walk.current # Undefined
        /\ extractWhoisReferral(walk.current[1].text) # Undefined
        /\ BareHost(extractWhoisReferral(walk.current[1].text)[1]) \in QueriedHosts) =>
          /\ pc = "walkDone"
          /\ walk.phase = "returned"
          /\ \E i \in 1..Len(wlog) :
                /\ wlog[i].res = Some(walk.current[1].text)
                /\ wlog[i].server = walk.current[1].serverQueried

\* a walk over after two queries with hops to spare: the second response
\* names its own server as the registrar's WHOIS server, and the host of its
\* "whois server" line has not been queried
C26_Witness ==
    /\ pc = "walkDone"
    /\ Len(wlog) = 2
    /\ MaxHops(opts) >= 2
    /\ wlog[2].res # Undefined
    /\ walk.current[1].text = wlog[2].res[1]
    /\ walk.current[1].serverQueried = wlog[2].server
    /\ extractWhoisReferral(walk.current[1].text) = Some(wlog[2].server)
    /\ \E i \in 1..Len(walk.current[1].text.refs) :
          /\ walk.current[1].text.refs[i].key = "whois server"
          /\ BareHost(walk.current[1].text.refs[i].value) \notin QueriedHosts

(***************************************************************************)
(* CallSpec: a call of one of the two walkers, or a call of lookup.        *)
(***************************************************************************)
CallInit == WalkInit \/ Init

CallNext == WalkNext \/ Next

CallSpec == CallInit /\ [][CallNext]_vars

(***************************************************************************)
(* C27 (CallSpec).  When the query of a referred server fails, the walker  *)
(* (either one) returns without throwing, with the response adopted last   *)
(* and the chain collected so far unchanged, and queries nothing more;     *)
(* lookup then returns ok:true with the record of the chain as it was      *)
(* before the failed query.                                                *)
(***************************************************************************)
C27_FailedHopKeepsLastGood ==
    [][ (pc \in {"walkHop", "whoisHop"} /\ LastQuery'.res = Undefined) =>
            /\ walk'.phase = "returned"
            /\ walk'.error = Undefined
            /\ walk'.current = walk.current
            /\ walk'.results = walk.results
            /\ pc = "walkHop" => pc' = "walkDone"
            /\ pc = "whoisHop" =>
                  /\ pc' = "done"
                  /\ result'.ok
                  /\ result' = CoalesceChain(domain, TldOf(domain), walk.results)
                  /\ \A i \in 1..Len(walk.results) :
                        \E j \in 1..(Len(wlog)) :
                            /\ wlog[j].res = Some(walk.results[i].text)
                            /\ wlog[j].server = walk.results[i].serverQueried
      ]_vars

\* lookup returned a record after its third query failed; the record names
\* the second server
C27_Witness ==
    /\ pc = "done"
    /\ Len(wlog) = 3
    /\ wlog[3].res = Undefined
    /\ result.ok
    /\ Len(walk.results) = 2
    /\ result.record[1].whoisServer = Some(wlog[2].server)

(***************************************************************************)
(* MergeSpec: mergeWhoisRecords(first, rest) over every chain of 1 to      *)
(* MaxChain records.  `walk.results` holds the records passed, as the call *)
(* leaves them, `wlog` what they were when passed, and `result` the record *)
(* returned.                                                               *)
(***************************************************************************)
MaxChain == 3

RegistrarSparse == [name |-> "Example Registrar", ianaId |-> Undefined, url |-> Undefined]
RegistrarRich ==
    [name |-> "Example Registrar, Inc.", ianaId |-> Some("9999"),
     url |-> Some("https://registrar.example")]

\* a registered domain's record with none of the optional fields
PlainRecord ==
    [normalizeWhois(<<"example", "com">>, Tld(<<"com">>),
                    [body |-> BodyRegistered, refs |-> <<>>], Srv(0))
        EXCEPT !.whoisServer = Undefined]

DatedRecord(c, u, e) ==
    [PlainRecord EXCEPT !.creationDate = c, !.updatedDate = u, !.expirationDate = e]

\* the records of a chain: registered or not; with some, all or none of the
\* dates; with the blocks and flags that are filled only when empty
MergeRecords ==
    { PlainRecord,
      [PlainRecord EXCEPT !.isRegistered = FALSE],
      DatedRecord(Some(Iso(1)), Some(Iso(1)), Some(Iso(1))),
      DatedRecord(Some(Iso(2)), Some(Iso(3)), Some(Iso(2))),
      DatedRecord(Some(Iso(3)), Undefined, Some(Iso(3))),
      DatedRecord(Undefined, Some(Iso(2)), Undefined),
      [PlainRecord EXCEPT !.registrar = Some(RegistrarSparse), !.dnssec = Some(FALSE)],
      [PlainRecord EXCEPT !.registrar = Some(RegistrarRich), !.reseller = Some("Reseller A"),
                          !.privacyEnabled = Some(TRUE), !.source = "rdap",
                          !.tld = Tld(<<"net">>)],
      [PlainRecord EXCEPT !.registry = Some("Registry A"), !.reseller = Some("Reseller B"),
                          !.deletionDate = Some(Iso(1)), !.dnssec = Some(TRUE),
                          !.domain = <<"example", "net">>],
      [PlainRecord EXCEPT !.isRegistered = FALSE, !.registry = Some("Registry B"),
                          !.deletionDate = Some(Iso(2)), !.privacyEnabled = Some(FALSE)],
      [PlainRecord EXCEPT !.whoisServer = Some(Srv(0)), !.rawWhois = Some(BodyRegistered)],
      [PlainRecord EXCEPT !.whoisServer = Some(Srv(1))],
      [PlainRecord EXCEPT !.rawWhois = Some(BodyNoMatch)] }

RECURSIVE RecordChains(_)
RecordChains(n) ==
    IF n = 1 THEN {<<r>> : r \in MergeRecords}
    ELSE LET shorter == RecordChains(n - 1)
         IN  shorter \cup {Append(c, r) : c \in {x \in shorter : Len(x) = n - 1}, r \in MergeRecords}

MergeInit ==
    /\ pc = "merge"
    /\ domain = <<"example", "com">>
    /\ opts = DefaultOpts
    /\ bases = <<>>
    /\ tried = <<>>
    /\ rel = NoRel
    /\ whoisServer = Undefined
    /\ \E chain \in RecordChains(MaxChain) :
          walk = [NoWalk EXCEPT !.fn = "merge", !.results = chain]
    /\ result = NoResult
    /\ signalAborted = FALSE
    /\ lastOp = NoOp
    /\ issued = {}
    /\ wlog = <<>>
    /\ leftOpen = {}
    /\ parked = NoCaller

\* `merged` bound to `base` itself instead of a copy of it
ArgumentsAfterMergeAliased(base, others) == <<mergeWhoisRecords(base, others)>> \o others

\* merge.ts 55-83: `merged` is a copy of `base` and only `merged` is written
\* to, so the records passed are afterwards what they were
ArgumentsAfterMerge(base, others) == <<base>> \o others

\* index.ts 127-128: mergeWhoisRecords(first, rest)
MergeCall ==
    /\ pc = "merge"
    /\ LET first == walk.results[1]
           rest == Tail(walk.results)
       IN  /\ Finish(Ok(mergeWhoisRecords(first, rest)))
           /\ walk' = [walk EXCEPT !.results = ArgumentsAfterMerge(first, rest),
                                   !.phase = "returned"]
           /\ wlog' = walk.results
    /\ UNCHANGED <<parked, domain, opts, bases, tried, rel, whoisServer,
                   signalAborted, lastOp, issued, leftOpen>>

MergeSpec == MergeInit /\ [][MergeCall]_vars

\* the records that were passed to the call
Passed == wlog
Merged == result.record[1]

(***************************************************************************)
(* C28 (MergeSpec).  The merged record's isRegistered is true exactly when *)
(* at least one record of the chain has isRegistered true, at whatever     *)
(* position.                                                               *)
(***************************************************************************)
C28_RegisteredIfAnyIs ==
    pc = "done" =>
        (Merged.isRegistered <=> \E i \in 1..Len(Passed) : Passed[i].isRegistered)

\* only the middle record of three says registered
C28_Witness ==
    /\ pc = "done"
    /\ Len(Passed) = 3
    /\ ~Passed[1].isRegistered
    /\ Passed[2].isRegistered
    /\ ~Passed[3].isRegistered
    /\ Merged.isRegistered

\* the dates the passed records define for a field
DefinedDates(field) ==
    {Passed[i][field][1] : i \in {k \in 1..Len(Passed) : Passed[k][field] # Undefined}}

IsEarliestOf(d, ds) == d \in ds /\ \A x \in ds : d.instant <= x.instant
IsLatestOf(d, ds) == d \in ds /\ \A x \in ds : d.instant >= x.instant

(***************************************************************************)
(* C29 (MergeSpec).  The merged creationDate is the earliest creationDate  *)
(* a record of the chain defines; the merged updatedDate and               *)
(* expirationDate are the latest ones defined; a merged date is undefined  *)
(* exactly when no record of the chain defines it.                         *)
(***************************************************************************)
C29_EarliestCreationLatestOthers ==
    pc = "done" =>
        /\ \A field \in {"creationDate", "updatedDate", "expirationDate"} :
              (Merged[field] = Undefined) <=> (DefinedDates(field) = {})
        /\ Merged.creationDate # Undefined =>
              IsEarliestOf(Merged.creationDate[1], DefinedDates("creationDate"))
        /\ Merged.updatedDate # Undefined =>
              IsLatestOf(Merged.updatedDate[1], DefinedDates("updatedDate"))
        /\ Merged.expirationDate # Undefined =>
              IsLatestOf(Merged.expirationDate[1], DefinedDates("expirationDate"))

\* three records: the earliest creation date comes last, the latest
\* expiration date first, and the first record has no updated date
C29_Witness ==
    /\ pc = "done"
    /\ Len(Passed) = 3
    /\ Passed[1] = DatedRecord(Some(Iso(3)), Undefined, Some(Iso(3)))
    /\ Passed[2] = DatedRecord(Some(Iso(2)), Some(Iso(3)), Some(Iso(2)))
    /\ Passed[3] = DatedRecord(Some(Iso(1)), Some(Iso(1)), Some(Iso(1)))
    /\ Merged.creationDate = Some(Iso(1))
    /\ Merged.updatedDate = Some(Iso(3))
    /\ Merged.expirationDate = Some(Iso(3))

\* the fields mergeWhoisRecords fills only when they are empty
FilledWhenEmpty == {"registry", "registrar", "reseller", "deletionDate", "dnssec", "privacyEnabled"}
\* the positions of the passed records that define a field
Defining(field) == {i \in 1..Len(Passed) : Passed[i][field] # Undefined}

(***************************************************************************)
(* C30 (MergeSpec).  The merged registry, registrar, reseller,             *)
(* deletionDate, dnssec and privacyEnabled are those of the earliest       *)
(* record of the chain that defines them, taken whole, and undefined when  *)
(* none does; domain, tld and source are the first record's; the records   *)
(* passed are after the call what they were before.                        *)
(***************************************************************************)
C30_FirstDefinedKept ==
    pc = "done" =>
        /\ \A field \in FilledWhenEmpty :
              IF Defining(field) = {} THEN Merged[field] = Undefined
              ELSE LET first == CHOOSE i \in Defining(field) : \A k \in Defining(field) : i <= k
                   IN  Merged[field] = Passed[first][field]
        /\ Merged.domain = Passed[1].domain
        /\ Merged.tld = Passed[1].tld
        /\ Merged.source = Passed[1].source
        /\ walk.results = Passed

\* the first record's sparse registrar block kept although the second has
\* a richer one; the reseller, which the first lacks, taken from the second
C30_Witness ==
    /\ pc = "done"
    /\ Len(Passed) >= 2
    /\ Passed[1].registrar = Some(RegistrarSparse)
    /\ Passed[1].reseller = Undefined
    /\ Passed[2].registrar = Some(RegistrarRich)
    /\ Passed[2].source = "rdap"
    /\ Merged.registrar = Some(RegistrarSparse)
    /\ Merged.reseller = Passed[2].reseller
    /\ Merged.source = "whois"
    /\ Merged.tld = Tld(<<"com">>)

(***************************************************************************)
(* ServerSpec: a call of mergeWhoisRecords over a chain of records, or the *)
(* last step of lookup over a chain of responses.                          *)
(***************************************************************************)
ServerInit == MergeInit \/ CoalesceInit

ServerNext == MergeCall \/ CoalesceNext

ServerSpec == ServerInit /\ [][ServerNext]_vars

\* the value of a field in the last passed record that has one
LastDefined(field) ==
    IF Defining(field) = {} THEN Undefined
    ELSE Passed[CHOOSE i \in Defining(field) : \A k \in Defining(field) : k <= i][field]

(***************************************************************************)
(* C31 (ServerSpec).  The merged whoisServer is that of the last record of *)
(* the chain that has one, and the merged rawWhois that of the last record *)
(* that has one; the WHOIS record lookup returns names the server of the   *)
(* last adopted response of the chain as whoisServer.                      *)
(***************************************************************************)
C31_LastServerKept ==
    /\ (pc = "done" /\ walk.fn = "merge") =>
          /\ Merged.whoisServer = LastDefined("whoisServer")
          /\ Merged.rawWhois = LastDefined("rawWhois")
    /\ (pc = "done" /\ walk.fn = "collect" /\ result.ok) =>
          Merged.whoisServer = Some(walk.results[Len(walk.results)].serverQueried)

\* three records: the second names a server and the third does not, the
\* first carries a raw text and the third another
C31_Witness ==
    /\ pc = "done"
    /\ walk.fn = "merge"
    /\ Len(Passed) = 3
    /\ Passed[1].whoisServer = Some(Srv(0))
    /\ Passed[1].rawWhois = Some(BodyRegistered)
    /\ Passed[2].whoisServer = Some(Srv(1))
    /\ Passed[3].whoisServer = Undefined
    /\ Passed[3].rawWhois = Some(BodyNoMatch)
    /\ Merged.whoisServer = Some(Srv(1))
    /\ Merged.rawWhois = Some(BodyNoMatch)

\* lookup over a chain of three responses names the third server
C31_WitnessLookup ==
    /\ pc = "done"
    /\ walk.fn = "collect"
    /\ Len(walk.results) = 3
    /\ Merged.whoisServer = Some(Srv(2))

(***************************************************************************)
(* SkipSpec: the link follower over named documents.  The caller typed     *)
(* the domain in lower or mixed case; the base document carries two        *)
(* related links, and each link fetch settles with a failure or with a     *)
(* document naming the domain (in any case), naming another domain in      *)
(* ldhName or in unicodeName, or naming nothing.                           *)
(***************************************************************************)
SkipDomains == {<<"example", "com">>, <<"Example", "com">>}

SkipBaseDoc == RdapDoc(Some(<<"example", "com">>), <<LinkUrl(1), LinkUrl(2)>>, Undefined)

Named(ldh, uni, port43) == [RdapDoc(ldh, <<>>, port43) EXCEPT !.unicodeName = uni]

NamedDocs ==
    { Named(Some(<<"example", "com">>), Undefined, Some(Srv(1))),
      Named(Some(<<"EXAMPLE", "COM">>), Some(<<"Example", "com">>), Some(Srv(2))),
      Named(Undefined, Undefined, Some(Srv(3))),
      Named(Some(<<"example", "com">>), Some(<<"other", "org">>), Some(Srv(4))),
      Named(Undefined, Some(<<"other", "org">>), Some(Srv(5))),
      Named(Some(<<"other", "org">>), Undefined, Some(Srv(6))) }

NamedFetchOutcomes ==
    [kind : {"ok"}, doc : NamedDocs]
    \cup [kind : {"not found"} \cup HttpFailures, doc : {RdapDoc(Undefined, <<>>, Undefined)}]

SkipBags ==
    [whoisOnly : {FALSE}, rdapOnly : {FALSE, TRUE},
     followWhoisReferral : {Undefined}, maxWhoisReferralHops : {Undefined},
     rdapFollowLinks : {Undefined, Some(TRUE)}, maxRdapLinkHops : {Undefined, Some(1)},
     customBootstrapData : {Undefined}, customBootstrapUrl : {Undefined},
     whoisHints : {Undefined}]

SkipInit ==
    /\ pc = "relatedCall"
    /\ domain \in SkipDomains
    /\ opts \in SkipBags
    /\ bases = <<Url(1, TRUE)>>
    /\ tried = <<Url(1, TRUE)>>
    /\ rel = [phase |-> "called", current |-> SkipBaseDoc]
    /\ whoisServer = Undefined
    /\ walk = NoWalk
    /\ result = NoResult
    /\ signalAborted = FALSE
    /\ lastOp = Op("rdap domain", "ok")
    /\ issued = {"bootstrap", "http", DEFAULT_BOOTSTRAP_URL}
    /\ wlog = <<>>
    /\ leftOpen = {}
    /\ parked = NoCaller

NamedFetchRelated == RdapFetchRelatedFrom(NamedFetchOutcomes)

SkipNext == RelCall \/ NamedFetchRelated

SkipSpec == SkipInit /\ [][SkipNext]_vars

\* the names a document carries
NamesOf(doc) == {doc.ldhName[1] : x \in {doc.ldhName} \ {Undefined}}
                \cup {doc.unicodeName[1] : x \in {doc.unicodeName} \ {Undefined}}

\* a and b are the same name up to the case of their letters
EqualIgnoringCase(a, b) ==
    /\ Len(a) = Len(b)
    /\ \A i \in 1..Len(a) :
          \/ a[i] = b[i]
          \/ {a[i], b[i]} \subseteq {"example", "Example", "EXAMPLE"}
          \/ {a[i], b[i]} \subseteq {"com", "COM"}

(***************************************************************************)
(* C32 (SkipSpec).  When a related-link fetch settles, its document joins  *)
(* the documents to merge only if the fetch succeeded and every name the   *)
(* document carries (ldhName, unicodeName) equals the looked-up domain up  *)
(* to case; as long as no document has joined, the current document stays  *)
(* the base document; and whatever the fetches settle with, the lookup     *)
(* stays on the RDAP path and ends with ok:true and source "rdap", its     *)
(* record being the one of the base document when nothing joined.          *)
(***************************************************************************)
C32_OnlyMatchingDocsContribute ==
    [][pc = "rdapRelated" =>
        /\ Len(rel'.fetchedDocs) > Len(rel.fetchedDocs) =>
              /\ lastOp'.outcome = "ok"
              /\ \A name \in NamesOf(rel'.fetchedDocs[Len(rel'.fetchedDocs)]) :
                    EqualIgnoringCase(name, domain)
        /\ Len(rel'.fetchedDocs) >= Len(rel.fetchedDocs)
        /\ rel'.fetchedDocs = <<>> => rel'.current = SkipBaseDoc
        /\ pc' \in {"rdapRelated", "done"}
        /\ pc' = "done" =>
              /\ result'.ok
              /\ result'.record[1].source = "rdap"
              /\ rel'.fetchedDocs = <<>> =>
                    result'.record[1] =
                        normalizeRdap(domain, TldOf(domain), SkipBaseDoc, tried \o rel'.tried)
      ]_vars

\* a lookup of Example.com ended ok from RDAP after one link failed and the
\* other answered with a document about another domain; and one where a
\* document naming EXAMPLE.COM was merged
C32_Witness ==
    /\ pc = "done"
    /\ domain = <<"Example", "com">>
    /\ result.ok
    /\ result.record[1].source = "rdap"
    /\ rel.visited = {LinkUrl(1), LinkUrl(2)}
    /\ rel.tried = <<LinkUrl(2)>>
    /\ rel.fetchedDocs = <<>>
    /\ rel.current = SkipBaseDoc

C32_WitnessMerged ==
    /\ pc = "done"
    /\ domain = <<"Example", "com">>
    /\ Len(rel.fetchedDocs) = 1
    /\ rel.fetchedDocs[1].ldhName = Some(<<"EXAMPLE", "COM">>)
    /\ result.record[1].whoisServer = Some(Srv(2))

(***************************************************************************)
(* DocSpec: mergeRdapDocs on its own.  A base document (bare, or carrying  *)
(* scalars, arrays, remarks, or arrays holding two elements of one key)    *)
(* is merged with 0 to MaxOthers related documents.                        *)
(***************************************************************************)
MaxOthers == 2

Event(action, date, actor) == [eventAction |-> action, eventDate |-> date, eventActor |-> actor]
Entity(handle, roles, publicId) ==
    [handle |-> handle, roles |-> roles, vcardArray |-> <<"vcard">>, publicIds |-> publicId]

DocBase == [RdapDoc(Some(<<"example", "com">>), <<LinkUrl(1)>>, Undefined)
               EXCEPT !.handle = Some("D1"), !.unicodeName = Some(<<"example", "com">>)]

DocBases ==
    { DocBase,
      [DocBase EXCEPT !.port43 = Some(Srv(0)), !.secureDNS = Some("signed"),
                      !.status = Some(<<"active">>),
                      !.events = Some(<<Event("registration", 1, "registry")>>),
                      !.nameservers = Some(<<RdapNs(Some(Host(1, FALSE)), <<AddrA>>, <<>>)>>),
                      !.entities = Some(<<Entity("reg-1", <<"registrar">>, 9)>>)],
      [DocBase EXCEPT !.secureDNS = Some("signed"), !.remarks = Some(<<"base remark">>)],
      [DocBase EXCEPT !.port43 = Some(Srv(0)),
                      !.events = Some(<<Event("registration", 1, "registry"),
                                        Event("Registration", 1, "registrar")>>)],
      [DocBase EXCEPT !.nameservers = Some(<<RdapNs(Undefined, <<AddrA>>, <<>>),
                                             RdapNs(Undefined, <<AddrB>>, <<>>)>>)],
      [DocBase EXCEPT !.status = Some(<<"active", "active">>),
                      !.entities = Some(<<Entity("reg-1", <<"registrar">>, 9),
                                          Entity("REG-1", <<"registrar">>, 10)>>)] }

DocOthers ==
    { RdapDoc(Undefined, <<>>, Undefined),
      [RdapDoc(Some(<<"example", "com">>), <<LinkUrl(2)>>, Some(Srv(1)))
          EXCEPT !.handle = Some("D2"), !.secureDNS = Some("unsigned"),
                 !.status = Some(<<"active", "locked">>),
                 !.events = Some(<<Event("expiration", 2, "registrar")>>),
                 !.remarks = Some(<<"related remark">>)],
      [RdapDoc(Undefined, <<>>, Some(Srv(2)))
          EXCEPT !.nameservers = Some(<<RdapNs(Some(Host(1, TRUE)), <<AddrB>>, <<>>),
                                        RdapNs(Some(Host(2, FALSE)), <<>>, <<>>)>>),
                 !.entities = Some(<<Entity("reg-2", <<"registrar">>, 11)>>)] }

DocLists(n) == UNION {[1..k -> DocOthers] : k \in 0..n}

DocInit ==
    /\ pc = "mergeDocs"
    /\ domain = <<"example", "com">>
    /\ opts = DefaultOpts
    /\ bases = <<Url(1, TRUE)>>
    /\ tried = <<Url(1, TRUE)>>
    /\ \E baseDoc \in DocBases, others \in DocLists(MaxOthers) :
          rel = [phase |-> "called", current |-> baseDoc, fetchedDocs |-> others]
    /\ whoisServer = Undefined
    /\ walk = NoWalk
    /\ result = NoResult
    /\ signalAborted = FALSE
    /\ lastOp = Op("rdap related", "ok")
    /\ issued = {"bootstrap", "http", DEFAULT_BOOTSTRAP_URL}
    /\ wlog = <<>>
    /\ leftOpen = {}
    /\ parked = NoCaller

\* `merged` bound to the base document itself instead of a copy of it
BaseDocAfterMergeAliased(baseDoc, others) == mergeRdapDocs(baseDoc, others)

\* part_018 11: `merged` is a shallow copy of the base and every array
\* assigned to it is a new one, so the base is afterwards what it was
BaseDocAfterMerge(baseDoc, others) == baseDoc

\* part_018 93: mergeRdapDocs(current, fetchedDocs); wlog keeps the base as
\* it was passed
MergeDocsCall ==
    /\ pc = "mergeDocs"
    /\ pc' = "done"
    /\ result' = Ok(mergeRdapDocs(rel.current, rel.fetchedDocs))
    /\ rel' = [rel EXCEPT !.phase = "returned",
                          !.current = BaseDocAfterMerge(rel.current, rel.fetchedDocs)]
    /\ wlog' = <<rel.current>>
    /\ UNCHANGED <<parked, domain, opts, bases, tried, whoisServer, walk, signalAborted,
                   lastOp, issued, leftOpen>>

DocSpec == DocInit /\ [][MergeDocsCall]_vars

PassedBase == wlog[1]
MergedDoc == result.record[1]

\* the value of a scalar in the first of base and related documents that
\* has it
FirstHaving(field) ==
    LET docs == <<PassedBase>> \o rel.fetchedDocs
        at == {i \in 1..Len(docs) : docs[i][field] # Undefined}
    IN  IF at = {} THEN Undefined ELSE docs[CHOOSE i \in at : \A j \in at : i <= j][field]

ElementsOf(arr) == {OrEmpty(arr)[i] : i \in 1..Len(OrEmpty(arr))}

NameKey(n) == IF n.ldhName = Undefined THEN Undefined ELSE Some(HostToLowerCase(n.ldhName[1]))

\* every element of the base's array is represented in the merged array by
\* the first element of the base's array with its key
KeptByKey(field, key(_)) ==
    LET base == OrEmpty(PassedBase[field])
    IN  \A i \in 1..Len(base) :
            LET first == CHOOSE j \in 1..i :
                            /\ key(base[j]) = key(base[i])
                            /\ \A k \in 1..(j - 1) : key(base[k]) # key(base[i])
            IN  base[first] \in ElementsOf(MergedDoc[field])

ScalarsAndFrame ==
    /\ MergedDoc.secureDNS = FirstHaving("secureDNS")
    /\ MergedDoc.port43 = FirstHaving("port43")
    /\ ElementsOf(PassedBase.status) \subseteq ElementsOf(MergedDoc.status)
    /\ \A f \in {"ldhName", "unicodeName", "handle", "links"} : MergedDoc[f] = PassedBase[f]
    /\ rel.current = PassedBase

(***************************************************************************)
(* C33 as stated (DocSpec).  After mergeRdapDocs, secureDNS and port43     *)
(* are those of the first of base and related documents that has them,     *)
(* every status, event, nameserver and entity of the base is an element    *)
(* of the result's arrays, every other field of the base (names, handle,   *)
(* links, remarks) is unchanged, and the base is what it was.              *)
(***************************************************************************)
C33_MergeIsAdditive ==
    pc = "done" =>
        /\ ScalarsAndFrame
        /\ \A f \in {"events", "nameservers", "entities"} :
              ElementsOf(PassedBase[f]) \subseteq ElementsOf(MergedDoc[f])
        /\ MergedDoc.remarks = PassedBase.remarks

(***************************************************************************)
(* C33 amended (DocSpec).  As above, except that events, nameservers and   *)
(* entities of the base are kept up to their deduplication key (the first  *)
(* element of the base with a key stands for the later ones), and that     *)
(* remarks are not left alone: the result's remarks begin with the base's  *)
(* and are the base's when no related document has remarks.                *)
(***************************************************************************)
C33_MergeIsAdditiveByKey ==
    pc = "done" =>
        /\ ScalarsAndFrame
        /\ KeptByKey("events", EventKey)
        /\ KeptByKey("nameservers", NameKey)
        /\ KeptByKey("entities", EntityKey)
        /\ IsPrefix(OrEmpty(PassedBase.remarks), OrEmpty(MergedDoc.remarks))
        /\ (\A i \in 1..Len(rel.fetchedDocs) : rel.fetchedDocs[i].remarks = Undefined) =>
              MergedDoc.remarks = PassedBase.remarks

\* a base with port43, secureDNS and one element in each array was merged
\* with two documents that carry other scalars and further elements
C33_Witness ==
    /\ pc = "done"
    /\ PassedBase.port43 = Some(Srv(0))
    /\ PassedBase.secureDNS = Some("signed")
    /\ Len(rel.fetchedDocs) = 2
    /\ rel.fetchedDocs[1].port43 = Some(Srv(1))
    /\ rel.fetchedDocs[2].port43 = Some(Srv(2))
    /\ MergedDoc.port43 = Some(Srv(0))
    /\ MergedDoc.secureDNS = Some("signed")
    /\ Len(MergedDoc.status[1]) = 2
    /\ Len(MergedDoc.events[1]) = 2
    /\ Len(MergedDoc.nameservers[1]) = 2
    /\ Len(MergedDoc.entities[1]) = 2

(***************************************************************************)
(* RaceSpec: withTimeout on its own.  It is called with a promise that is  *)
(* pending or already settled and will fulfil, reject or never settle,     *)
(* with a timeout that is a positive, zero or negative number, an          *)
(* infinity or NaN, and with a reason.  Afterwards the promise settles     *)
(* and the timer fires in either order.  `parked` holds the call: the      *)
(* promise passed, the timer, what was returned and what the returned      *)
(* promise has settled with.                                               *)
(***************************************************************************)
Number(n) == [kind |-> "number", ms |-> n]
NotFinite(kind) == [kind |-> kind, ms |-> 0]
NumberIsFinite(t) == t.kind = "number"

TimeoutChoices ==
    {Number(n) : n \in {0 - 5, 0, 1, 5000}}
    \cup {NotFinite(k) : k \in {"Infinity", "-Infinity", "NaN"}}

Fulfilled(v) == [state |-> "fulfilled", value |-> v]
RejectedWith(e) == [state |-> "rejected", value |-> e]
Pending == [state |-> "pending", value |-> "none"]

Settlements == {Fulfilled("a"), Fulfilled("b"), RejectedWith("socket error")}
Reasons == {"Timeout", "WHOIS timeout", "RDAP timeout"}

RaceInit ==
    /\ pc = "withTimeout"
    /\ \E will \in Settlements \cup {Pending}, already \in BOOLEAN,
          t \in TimeoutChoices, reason \in Reasons :
          /\ already => will # Pending
          /\ parked = [pc |-> "withTimeout",
                       promise |-> IF already THEN will ELSE Pending,
                       will |-> will,
                       timeoutMs |-> t,
                       reason |-> reason,
                       timer |-> "none",
                       returned |-> "none",
                       settled |-> Pending]
    /\ domain = <<"example", "com">>
    /\ opts = DefaultOpts
    /\ bases = <<>>
    /\ tried = <<>>
    /\ rel = NoRel
    /\ whoisServer = Undefined
    /\ walk = NoWalk
    /\ result = NoResult
    /\ signalAborted = FALSE
    /\ lastOp = Op("none", "none")
    /\ issued = {}
    /\ wlog = <<>>
    /\ leftOpen = {}

\* the promise's finally handler not clearing the timer
PromiseSettlesInKeepsTimer(c, out) ==
    [c EXCEPT !.promise = out,
              !.settled = IF @ = Pending THEN out ELSE @]

\* part_015 12-14: the promise settles; its finally handler clears the
\* timer, and the race (or the promise itself, when it was returned as is)
\* settles with it unless the race is settled already
PromiseSettlesIn(c, out) ==
    [c EXCEPT !.promise = out,
              !.timer = IF @ = "armed" THEN "cleared" ELSE @,
              !.settled = IF @ = Pending THEN out ELSE @]

\* part_015 9: the timer's callback rejects with new Error(reason); a
\* settled race stays what it is
TimerFiresIn(c) ==
    [c EXCEPT !.timer = "fired",
              !.settled = IF @ = Pending THEN RejectedWith(c.reason) ELSE @]

\* part_015 1-17: withTimeout up to its return, and the microtasks of a
\* promise that was settled already
withTimeout(c) ==
    IF ~NumberIsFinite(c.timeoutMs) \/ c.timeoutMs.ms <= 0
    THEN [c EXCEPT !.pc = "returned", !.returned = "promise", !.settled = c.promise]
    ELSE LET armed == [c EXCEPT !.pc = "returned", !.returned = "race", !.timer = "armed"]
         IN  IF c.promise = Pending THEN armed ELSE PromiseSettlesIn(armed, c.promise)

WithTimeoutCall ==
    /\ pc = "withTimeout"
    /\ pc' = "racing"
    /\ parked' = withTimeout(parked)
    /\ lastOp' = Op("withTimeout", "returned")
    /\ UNCHANGED <<domain, opts, bases, tried, rel, whoisServer, walk, result, signalAborted,
                   issued, wlog, leftOpen>>

\* the promise passed settles
PromiseSettles ==
    /\ pc = "racing"
    /\ parked.promise = Pending
    /\ parked.will # Pending
    /\ parked' = PromiseSettlesIn(parked, parked.will)
    /\ lastOp' = Op("promise", parked.will.state)
    /\ UNCHANGED <<pc, domain, opts, bases, tried, rel, whoisServer, walk, result,
                   signalAborted, issued, wlog, leftOpen>>

\* timeoutMs have elapsed on an armed timer
TimerFires ==
    /\ pc = "racing"
    /\ parked.timer = "armed"
    /\ parked' = TimerFiresIn(parked)
    /\ lastOp' = Op("timer", "fired")
    /\ UNCHANGED <<pc, domain, opts, bases, tried, rel, whoisServer, walk, result,
                   signalAborted, issued, wlog, leftOpen>>

RaceNext == WithTimeoutCall \/ PromiseSettles \/ TimerFires

RaceSpec == RaceInit /\ [][RaceNext]_vars

TimeoutApplies == NumberIsFinite(parked.timeoutMs) /\ parked.timeoutMs.ms > 0

\* what holds of a call that has returned
RaceSettledRight ==
    pc = "racing" =>
        /\ ~TimeoutApplies =>
              /\ parked.timer = "none"
              /\ parked.returned = "promise"
              /\ parked.settled = parked.promise
        /\ TimeoutApplies =>
              /\ parked.returned = "race"
              /\ parked.promise # Pending => parked.timer \in {"cleared", "fired"}
              /\ parked.timer = "cleared" => parked.settled = parked.promise
              /\ parked.settled # Pending =>
                    \/ parked.settled = parked.promise
                    \/ parked.timer = "fired" /\ parked.settled = RejectedWith(parked.reason)

(***************************************************************************)
(* C34 (RaceSpec).  With a finite positive timeout the promise returned    *)
(* by withTimeout settles with the first of two events: the promise        *)
(* passed settling (its value or error) or the timer firing (an error      *)
(* with the reason given); once settled it never changes, and once the     *)
(* promise passed has settled the timer is no longer armed.  With a        *)
(* timeout that is zero, negative or not finite no timer is armed and the  *)
(* promise passed is returned as is.                                       *)
(***************************************************************************)
C34_FirstEventSettles ==
    [][/\ RaceSettledRight'
       /\ parked.settled # Pending => parked'.settled = parked.settled
       /\ (pc = "racing" /\ parked.settled = Pending /\ parked'.settled # Pending) =>
             parked'.settled = IF lastOp'.kind = "timer" THEN RejectedWith(parked.reason)
                               ELSE parked.will
      ]_vars

\* the timer fired first and the promise passed fulfilled afterwards: the
\* race stays rejected with the reason
C34_Witness ==
    /\ pc = "racing"
    /\ parked.timeoutMs = Number(5000)
    /\ parked.reason = "WHOIS timeout"
    /\ parked.timer = "fired"
    /\ parked.promise = Fulfilled("a")
    /\ parked.settled = RejectedWith("WHOIS timeout")

\* the promise passed rejected first: the timer is cleared
C34_WitnessCleared ==
    /\ pc = "racing"
    /\ parked.timeoutMs = Number(1)
    /\ parked.timer = "cleared"
    /\ parked.settled = RejectedWith("socket error")

\* a NaN timeout: the promise passed is what is returned
C34_WitnessAsIs ==
    /\ pc = "racing"
    /\ parked.timeoutMs = NotFinite("NaN")
    /\ parked.returned = "promise"
    /\ parked.settled = Fulfilled("b")

(***************************************************************************)
(* SocketSpec: one whoisQuery exchange (whois/client.ts).  whoisQuery is   *)
(* called with a server string, a query and a timeoutMs option; the        *)
(* runtime has node:net or not.  The socket then connects, receives up to  *)
(* MaxChunks chunks, and its end, error and timeout events and the timer   *)
(* of the outer race happen at most once each, in any order, also after    *)
(* the socket was destroyed.  `parked` holds the exchange.                 *)
(***************************************************************************)
MaxChunks == 2
DEFAULT_TIMEOUT_MS == 10000
IdleMargin == 1000

\* "whois.jprs.jp"
JprsHost == 7

\* client.ts 17-19 and 35-36: the table is looked up with the host as it
\* is written, after the scheme was cut off
TransformedQuery(host, query) ==
    IF host = Srv(JprsHost) THEN [query EXCEPT !.suffix = "/e"] ELSE query

Query(d) == [name |-> d, suffix |-> ""]
Line(query) == [text |-> query, terminator |-> "CRLF"]

ExchangeServers == {Srv(0), Srv(JprsHost), SrvScheme(JprsHost), SrvUpper(JprsHost)}
TimeoutOptions == {Undefined, Some(500), Some(1000), Some(1001), Some(5000)}
Chunks == {"a", "b"}

\* net.Socket setTimeout: a negative duration is out of range (Node throws;
\* other runtimes take it for no timeout), 0 disables the idle timeout
SetTimeoutOutcomes(ms) ==
    IF ms < 0 THEN {"throws", "disabled"}
    ELSE IF ms = 0 THEN {"disabled"}
    ELSE {"armed"}

SocketInit ==
    /\ pc = "whoisQuery"
    /\ \E server \in ExchangeServers, t \in TimeoutOptions, hasNet \in BOOLEAN :
          parked = [pc |-> "whoisQuery", server |-> server, query |-> Query(<<"example", "jp">>),
                    timeoutMs |-> t, hasNet |-> hasNet]
    /\ domain = <<"example", "jp">>
    /\ opts = DefaultOpts
    /\ bases = <<>>
    /\ tried = <<>>
    /\ rel = NoRel
    /\ whoisServer = Undefined
    /\ walk = NoWalk
    /\ result = NoResult
    /\ signalAborted = FALSE
    /\ lastOp = Op("none", "none")
    /\ issued = {}
    /\ wlog = <<>>
    /\ leftOpen = {}

\* client.ts 70-74 with the guard on `done` left out
cleanupUnguarded(c) == [c EXCEPT !.done = TRUE, !.destroys = @ + 1]

\* client.ts 70-74 cleanup
cleanup(c) == IF c.done THEN c ELSE [c EXCEPT !.done = TRUE, !.destroys = @ + 1]

\* resolve or reject of queryTcp's promise: the first call settles it, and
\* with it the race of whoisQuery
Settle(c, out) ==
    IF c.race.promise # Pending THEN c
    ELSE [c EXCEPT !.race = PromiseSettlesIn(@, out)]

\* client.ts 30-42 and 47-93: whoisQuery up to its await
whoisQueryCall(c, idle) ==
    LET timeoutMs == OrElse(c.timeoutMs, DEFAULT_TIMEOUT_MS)
        host == StripScheme(c.server)
        transformedQuery == TransformedQuery(host, c.query)
        idleMs == OrElse(c.timeoutMs, DEFAULT_TIMEOUT_MS) - IdleMargin
        noNet == RejectedWith("WHOIS client is only available in Node.js runtimes")
        promise == IF ~c.hasNet THEN noNet
                   ELSE IF idle = "throws" THEN RejectedWith("ERR_OUT_OF_RANGE")
                   ELSE Pending
        race == withTimeout([pc |-> "withTimeout", promise |-> promise, will |-> Pending,
                             timeoutMs |-> Number(timeoutMs), reason |-> "WHOIS timeout",
                             timer |-> "none", returned |-> "none", settled |-> Pending])
    IN  [pc |-> "exchange", server |-> c.server, query |-> transformedQuery,
         timeoutMs |-> timeoutMs, hasNet |-> c.hasNet,
         socket |-> IF c.hasNet THEN "connecting" ELSE "none",
         handlers |-> c.hasNet /\ idle # "throws",
         idle |-> IF c.hasNet /\ idle = "armed" THEN "armed" ELSE "none",
         idleMs |-> idleMs,
         written |-> <<>>, data |-> <<>>, done |-> FALSE, destroys |-> 0,
         seen |-> {}, race |-> race]

WhoisQueryCall ==
    /\ pc = "whoisQuery"
    /\ \E idle \in SetTimeoutOutcomes(OrElse(parked.timeoutMs, DEFAULT_TIMEOUT_MS) - IdleMargin) :
          parked' = whoisQueryCall(parked, idle)
    /\ pc' = "exchange"
    /\ lastOp' = Op("whoisQuery", "called")
    /\ UNCHANGED <<domain, opts, bases, tried, rel, whoisServer, walk, result, signalAborted,
                   issued, wlog, leftOpen>>

Exchange(event, next) ==
    /\ pc = "exchange"
    /\ parked.handlers
    /\ parked' = next
    /\ lastOp' = Op("socket", event)
    /\ UNCHANGED <<pc, domain, opts, bases, tried, rel, whoisServer, walk, result,
                   signalAborted, issued, wlog, leftOpen>>

\* client.ts 90-92: on "connect"
SocketConnect ==
    /\ pc = "exchange"
    /\ parked.socket = "connecting"
    /\ ~parked.done
    /\ Exchange("connect", [parked EXCEPT !.socket = "connected",
                                          !.written = Append(@, Line(parked.query))])

\* client.ts 83-85: on "data"
SocketData ==
    /\ pc = "exchange"
    /\ parked.socket = "connected"
    /\ Len(parked.data) < MaxChunks
    /\ \E chunk \in Chunks : Exchange("data", [parked EXCEPT !.data = Append(@, chunk)])

\* client.ts 86-89: on "end"
SocketEnd ==
    /\ pc = "exchange"
    /\ parked.socket = "connected"
    /\ "end" \notin parked.seen
    /\ Exchange("end", Settle([cleanup(parked) EXCEPT !.seen = @ \cup {"end"}],
                              Fulfilled(parked.data)))

\* client.ts 79-82: on "error"
SocketError ==
    /\ pc = "exchange"
    /\ parked.socket # "none"
    /\ "error" \notin parked.seen
    /\ Exchange("error", Settle([cleanup(parked) EXCEPT !.seen = @ \cup {"error"}],
                                RejectedWith("socket error")))

\* client.ts 75-78: the idle timeout's callback
SocketTimeout ==
    /\ pc = "exchange"
    /\ parked.idle = "armed"
    /\ Exchange("timeout", Settle([cleanup(parked) EXCEPT !.idle = "fired",
                                                          !.seen = @ \cup {"timeout"}],
                                  RejectedWith("WHOIS socket timeout")))

\* client.ts 38-42: the timer of withTimeout
WhoisTimerFires ==
    /\ pc = "exchange"
    /\ parked.race.timer = "armed"
    /\ parked' = [parked EXCEPT !.race = TimerFiresIn(@)]
    /\ lastOp' = Op("timer", "fired")
    /\ UNCHANGED <<pc, domain, opts, bases, tried, rel, whoisServer, walk, result,
                   signalAborted, issued, wlog, leftOpen>>

SocketNext ==
    \/ WhoisQueryCall
    \/ SocketConnect
    \/ SocketData
    \/ SocketEnd
    \/ SocketError
    \/ SocketTimeout
    \/ WhoisTimerFires

SocketSpec == SocketInit /\ [][SocketNext]_vars

\* client.ts 43: what whoisQuery has settled with
WhoisQuerySettled ==
    IF parked.race.settled.state = "fulfilled"
    THEN Fulfilled(WhoisQueryResult(parked.server, parked.race.settled.value))
    ELSE parked.race.settled

\* the line the protocol asks for: the query, with "/e" for whois.jprs.jp
ExpectedLine ==
    [text |-> [name |-> domain,
               suffix |-> IF parked.server \in {Srv(JprsHost), SrvScheme(JprsHost)}
                          THEN "/e" ELSE ""],
     terminator |-> "CRLF"]

(***************************************************************************)
(* C35 (SocketSpec).  In one whoisQuery exchange, whatever the order of    *)
(* the socket's data, end, error and timeout events: nothing is written    *)
(* before the connection is established and exactly one line afterwards,   *)
(* the query (with "/e" appended for whois.jprs.jp) followed by CRLF; a    *)
(* fulfilled result is the server as given with the chunks received        *)
(* before the end event, in arrival order; the first of end, error and     *)
(* socket timeout settles the socket's promise, an error or timeout        *)
(* rejecting it; the result never changes once settled; and the socket is  *)
(* destroyed at most once.                                                 *)
(***************************************************************************)
C35_ExchangeFollowsProtocol ==
    [][pc = "exchange" =>
        /\ parked'.written = IF parked'.socket = "connected" THEN <<ExpectedLine>> ELSE <<>>
        /\ parked'.destroys <= 1
        /\ parked.race.settled # Pending => parked'.race.settled = parked.race.settled
        /\ parked.race.promise # Pending => parked'.race.promise = parked.race.promise
        /\ (parked.race.promise = Pending /\ lastOp'.kind = "socket") =>
              parked'.race.promise =
                  IF lastOp'.outcome = "end" THEN Fulfilled(parked.data)
                  ELSE IF lastOp'.outcome = "error" THEN RejectedWith("socket error")
                  ELSE IF lastOp'.outcome = "timeout" THEN RejectedWith("WHOIS socket timeout")
                  ELSE Pending
        /\ WhoisQuerySettled'.state = "fulfilled" =>
              /\ "end" \in parked'.seen
              /\ WhoisQuerySettled'.value.serverQueried = parked.server
              /\ IsPrefix(WhoisQuerySettled'.value.text, parked'.data)
      ]_vars

\* whois://whois.jprs.jp answered two chunks and ended, then an error came:
\* the result is the two chunks in order, the socket was destroyed once
C35_Witness ==
    /\ pc = "exchange"
    /\ parked.server = SrvScheme(JprsHost)
    /\ parked.written = <<Line([name |-> <<"example", "jp">>, suffix |-> "/e"])>>
    /\ parked.seen = {"end", "error"}
    /\ parked.destroys = 1
    /\ WhoisQuerySettled.state = "fulfilled"
    /\ WhoisQuerySettled.value = WhoisQueryResult(SrvScheme(JprsHost), <<"a", "b">>)

\* the socket timed out before connecting and an error followed
C35_WitnessTimeout ==
    /\ pc = "exchange"
    /\ parked.socket = "connecting"
    /\ parked.written = <<>>
    /\ parked.seen = {"timeout", "error"}
    /\ parked.destroys = 1
    /\ WhoisQuerySettled.state = "rejected"
    /\ WhoisQuerySettled.value = "WHOIS socket timeout"

(***************************************************************************)
(* C36 (SocketSpec).  For every effective timeoutMs > 0 the socket of a    *)
(* WHOIS exchange has an idle timeout that is armed with a duration        *)
(* strictly between 0 and timeoutMs.                                       *)
(***************************************************************************)
C36_IdleTimeoutBelowBudget ==
    (pc = "exchange" /\ parked.hasNet /\ parked.timeoutMs > 0) =>
        /\ parked.idle \in {"armed", "fired"}
        /\ 0 < parked.idleMs
        /\ parked.idleMs < parked.timeoutMs

(***************************************************************************)
(* C37 (Spec).  When the bootstrap fetch is aborted through the caller's   *)
(* signal, getRdapBaseUrlsForTld throws instead of returning a list, and   *)
(* the lookup is over at once with ok:false: no base was tried, no         *)
(* related link followed and no WHOIS query made.                          *)
(***************************************************************************)
C37_BootstrapAbortEndsLookup ==
    (lastOp.kind = "bootstrap" /\ lastOp.outcome = "abort") =>
        /\ lastOp.ret = "threw"
        /\ pc = "done"
        /\ result.state = "resolved"
        /\ ~result.ok
        /\ result.record = Undefined
        /\ bases = <<>>
        /\ tried = <<>>
        /\ rel = NoRel
        /\ walk = NoWalk
        /\ wlog = <<>>
        /\ "whois" \notin issued

\* the bootstrap fetch of a lookup that may fall back to WHOIS was aborted
C37_Witness ==
    /\ lastOp.kind = "bootstrap"
    /\ lastOp.outcome = "abort"
    /\ signalAborted
    /\ ~opts.rdapOnly
    /\ ~opts.whoisOnly
    /\ pc = "done"
    /\ ~result.ok

(***************************************************************************)
(* TwinSpec: followWhoisReferrals and collectWhoisReferralChain over the   *)
(* same servers.  Every host answers each query the same way (a text with  *)
(* or without a referral, or a failure); followWhoisReferrals runs to its  *)
(* end, then collectWhoisReferralChain with the same initial server and    *)
(* options.  `wlog` lists the servers the running walker has queried,      *)
(* `parked` keeps the answers of the hosts and the finished first run.     *)
(***************************************************************************)
TwinHostIds == 0..2

TwinOutcomes ==
    [ok : {TRUE}, text : [body : {BodyRegistered, BodyNoMatch}, refs : PlainRefLinesOver(2)]]
    \cup [ok : {FALSE}, error : {"connect ECONNREFUSED"}]

TwinInit ==
    /\ pc = "follow"
    /\ domain = "example.com"
    /\ opts \in {[DefaultOpts EXCEPT !.followWhoisReferral = f,
                                     !.maxWhoisReferralHops = h] :
                    f \in {Undefined, Some(FALSE)}, h \in {Undefined, Some(0), Some(1)}}
    /\ bases = <<>>
    /\ tried = <<>>
    /\ rel = NoRel
    /\ whoisServer \in {Some(s) : s \in InitialServers}
    /\ walk = NoWalk
    /\ result = NoResult
    /\ signalAborted = FALSE
    /\ lastOp = NoOp
    /\ issued = {}
    /\ wlog = <<>>
    /\ leftOpen = {}
    /\ parked \in [pc : {"twin"}, answers : [TwinHostIds -> TwinOutcomes],
                   walk : {NoWalk}, queried : {<<>>}]

\* referral.ts 18, 31 and 61, 75: await whoisQuery of the walker running,
\* answered by the host the server string names; a walker that is through
\* hands over to the next one
TwinQuery ==
    /\ pc \in {"follow", "collect"}
    /\ LET server == IF walk.phase = "idle" THEN whoisServer[1] ELSE walk.next[1]
           out == parked.answers[normalize(server).name]
           w == IF walk.phase = "idle" THEN WalkerFirst(pc, server, out, opts)
                ELSE WalkerHop(walk, out, opts)
           queried == Append(wlog, server)
           through == w.phase \in {"returned", "threw"}
       IN  /\ lastOp' = Op(pc, IF out.ok THEN "ok" ELSE "failed")
           /\ issued' = issued \cup {"whois"}
           /\ IF through /\ pc = "follow"
              THEN /\ pc' = "collect"
                   /\ parked' = [parked EXCEPT !.walk = w, !.queried = queried]
                   /\ walk' = NoWalk
                   /\ wlog' = <<>>
              ELSE /\ pc' = IF through THEN "compared" ELSE pc
                   /\ walk' = w
                   /\ wlog' = queried
                   /\ parked' = parked
    /\ UNCHANGED <<domain, opts, bases, tried, rel, whoisServer, result, signalAborted, leftOpen>>

TwinSpec == TwinInit /\ [][TwinQuery]_vars

(***************************************************************************)
(* C38 (TwinSpec).  With the same initial server, domain, options and      *)
(* answers of the servers, followWhoisReferrals and                        *)
(* collectWhoisReferralChain query the same servers in the same order,     *)
(* both throw or both return, and what followWhoisReferrals returns is     *)
(* the last element of the chain collectWhoisReferralChain returns.        *)
(***************************************************************************)
C38_FollowIsLastOfChain ==
    pc = "compared" =>
        /\ parked.queried = wlog
        /\ parked.walk.phase = walk.phase
        /\ parked.walk.error = walk.error
        /\ walk.phase = "returned" =>
              /\ WalkerValue(walk) # <<>>
              /\ WalkerValue(parked.walk) = WalkerValue(walk)[Len(WalkerValue(walk))]

\* both walkers queried three servers: the second answer was adopted, the
\* third contradicted it and was dropped
C38_Witness ==
    /\ pc = "compared"
    /\ Len(wlog) = 3
    /\ Len(walk.results) = 2
    /\ parked.answers[normalize(wlog[3]).name].ok
    /\ isWhoisAvailable(parked.answers[normalize(wlog[3]).name].text)
    /\ WalkerValue(parked.walk) = walk.results[2]

\* the links the base documents of RelSpec carry; the related documents
\* link to Url(1, TRUE), which is none of them
BaseLinkUrls == {LinkUrl(i) : i \in 1..MaxLinks}

(***************************************************************************)
(* C39 (RelSpec).  Whatever maxRdapLinkHops is, every URL that             *)
(* fetchAndMergeRdapRelated fetches is a link of the base document that    *)
(* it has not fetched before, and it is fetched in the first round: once   *)
(* fetched documents were merged the follower returns, and the links of    *)
(* the fetched documents are never followed.                               *)
(***************************************************************************)
C39_OnlyBaseLinksOneRound ==
    [][pc = "rdapRelated" =>
        /\ rel.batch[1] \in BaseLinkUrls
        /\ rel.batch[1] \notin rel.visited
        /\ rel.hops = 0
        /\ rel'.hops <= 1
        /\ rel'.visited \subseteq BaseLinkUrls
        /\ rel'.hops = 1 => (rel'.phase = "returned" /\ pc' = "done")
        /\ rel'.current.links = rel.current.links
      ]_vars

\* with more than one hop allowed, two links of the base were fetched, a
\* document linking elsewhere was merged, and its link was not followed
C39_Witness ==
    /\ pc = "done"
    /\ MaxLinkHops(opts) >= 2
    /\ rel.hops = 1
    /\ Cardinality(rel.visited) >= 2
    /\ \E i \in 1..Len(rel.fetchedDocs) : rel.fetchedDocs[i].links = <<Url(1, TRUE)>>
    /\ Url(1, TRUE) \notin rel.visited
    /\ rel.current.port43 = Some(Srv(0))

\* the step taken is an RDAP fetch that the caller's signal aborted, in a
\* lookup that may fall back to WHOIS
AbortedFetchStep(kinds) ==
    /\ lastOp'.kind \in kinds
    /\ lastOp'.outcome = "abort"
    /\ ~opts.rdapOnly

(***************************************************************************)
(* C40 as stated (Spec).  When the caller's signal aborts an RDAP domain   *)
(* fetch or a related-link fetch and rdapOnly is not set, the lookup goes  *)
(* on to the next base URL or to the WHOIS path.                           *)
(***************************************************************************)
C40_AbortFallsThrough ==
    [][AbortedFetchStep({"rdap domain", "rdap related"}) =>
          /\ pc' \in {"rdap", "locate"}
          /\ result' = NoResult
      ]_vars

(***************************************************************************)
(* C40 amended (Spec).  An aborted RDAP domain fetch sends the lookup on   *)
(* to the next base URL or, after the last one, to the WHOIS path, with    *)
(* nothing returned yet.  An aborted related-link fetch is skipped like    *)
(* any failed link: the follower goes on with its batch, and the lookup    *)
(* then returns ok:true with source "rdap", never reaching WHOIS.          *)
(***************************************************************************)
C40_DomainAbortFallsThrough ==
    [][/\ AbortedFetchStep({"rdap domain"}) =>
             /\ pc' = IF Len(tried) < Len(bases) THEN "rdap" ELSE "locate"
             /\ result' = NoResult
             /\ signalAborted'
       /\ AbortedFetchStep({"rdap related"}) =>
             /\ pc' \in {"rdapRelated", "done"}
             /\ rel'.fetchedDocs = rel.fetchedDocs
             /\ pc' = "done" =>
                   /\ result'.ok
                   /\ result'.record[1].source = "rdap"
                   /\ "whois" \notin issued'
      ]_vars

\* the signal aborted an RDAP domain fetch, and the lookup still queried
\* WHOIS servers and returned a WHOIS record
C40_Witness ==
    /\ pc = "done"
    /\ signalAborted
    /\ ~opts.rdapOnly
    /\ tried = <<>>
    /\ "whois" \in issued
    /\ result.ok
    /\ result.record[1].source = "whois"

\* the signal aborted a related-link fetch, and the lookup returned the
\* RDAP record
C40_WitnessRelated ==
    /\ pc = "done"
    /\ signalAborted
    /\ lastOp.kind = "rdap related"
    /\ lastOp.outcome = "abort"
    /\ result.ok
    /\ result.record[1].source = "rdap"
    /\ "whois" \notin issued
====
